---- MODULE Spec2Model ----
(***************************************************************************)
(* Model of the box-merge pipeline of src/src/utils/3mfGenerator.ts        *)
(* (generate3DModel): region extraction by flood fill, greedy rectangle    *)
(* decomposition, box extrusion through the per-colour vertex map, and     *)
(* the serialisation of one object per colour.                             *)
(*                                                                         *)
(* Lengths are fixed-point integers with FracDigits decimals of a          *)
(* millimetre, one digit finer than the 6 decimals of the vertex key, so   *)
(* that toFixed() is a real rounding.  The classified grid (colorMap) is   *)
(* the input: image decoding and colour quantisation are outside.          *)
(***************************************************************************)
EXTENDS Integers, Sequences, FiniteSets, TLC

\* ---------------------------------------------------------------- bounds
GridW == 3
GridH == 2
NumColors == 2
MaxLayers == 3
MaskW == 3
MaskH == 3
SmoothScale == 50
MaxPolygon == 5
PolyGrid == 2
MaxRuns == 3

\* ------------------------------------------------------ program constants
KeyDecimals == 6
XmlDecimals == 3
BedCenter == 125
FirstObjectId == 2
SmoothMinSize == 100
DefaultColorHeight == 12

FracDigits == KeyDecimals + 1
UnitsPerMm == 10 ^ FracDigits

imgWidth == GridW
imgHeight == GridH

centerX == BedCenter * UnitsPerMm
centerY == BedCenter * UnitsPerMm

\* configured model widths (mm) and layer heights (tenths of a mm)
Widths == {20 * UnitsPerMm}
Heights == {5 * (UnitsPerMm \div 10), 10 * (UnitsPerMm \div 10)}

Cells == (0 .. imgWidth - 1) \X (0 .. imgHeight - 1)
ColorIndices == 0 .. NumColors - 1
Transparent == -1

VARIABLES
  colorMap,          \* classified grid: cell -> colour index or -1
  width,             \* config.width
  colorHeights,      \* config.colorHeights
  showOnFront,       \* config.showOnFront
  useSmoothing,      \* config.useSmoothing
  imageScale,        \* imageData: pixels drawn per grid cell, each way
  pc,                \* position inside generate3DModel
  colorIndex,        \* loop variable of the per-colour loop
  visited,           \* mergeAdjacentVoxels: visited cells
  components,        \* mergeAdjacentVoxels: components found so far
  compIdx,           \* component being decomposed (1-based)
  bitmap,            \* decomposeComponentIntoRectangles: unclaimed cells
  componentRegions,  \* decomposeComponentIntoRectangles: its regions
  regions,           \* mergeAdjacentVoxels: regions of the colour
  regionIdx,         \* next region to extrude (1-based)
  localVertices,     \* vertex list of the colour being built
  localTriangles,    \* triangle list of the colour being built
  vertexMap,         \* key -> index, owned by the colour being built
  objectsData,       \* finished colours that have geometry
  xml,               \* the serialised model document
  colorLayers,       \* export3MF: its argument
  layerIdx,          \* export3MF: idx of the forEach over the layers
  modelXml,          \* export3MF: the model document written so far
  mask,              \* generateMeshFromContours: the binary mask
  thickness,         \* generateMeshFromContours: extrusion thickness (mm)
  voxelSize,         \* generateMeshFromContours: mm per pixel
  maskVisited,       \* extractContours: visited pixels
  contours,          \* extractContours: contours found so far
  contourIdx,        \* generateMeshFromContours: contours extruded so far
  allVertices,       \* generateMeshFromContours: flat vertex array
  allIndices,        \* generateMeshFromContours: flat index array
  remainingAtReturn, \* triangulatePolygon: remaining, as left when it returns
  warnings,          \* number of console.warn calls of triangulatePolygon
  imageExists,       \* cli: fs.existsSync(imageFilepath)
  openscadInstalled, \* cli: whether `openscad --version` succeeds
  configFile,        \* cli: content of the .jsonc file, or Undefined
  outputFile,        \* cli: content of the .3mf file, or Undefined
  loadedConfig,      \* processImageTo3MF: config, once read
  coloredObjects,    \* processImageTo3MF: coloredObjects
  scadCalls,         \* createMeshWithOpenSCAD calls of the current run
  colorPos,          \* processImageTo3MF: position in Object.entries(colors)
  exitCode,          \* exit status of the last finished run, -1 before it
  errorMessage,      \* what console.error printed in the last run
  runs,              \* cli runs started so far
  filesAtStart       \* the two files as the current run found them

config == <<colorMap, width, colorHeights, showOnFront, useSmoothing,
           imageScale>>

\* state of generate3DModel (3mfGenerator.ts)
generateVars == <<config, colorIndex, visited, components, compIdx, bitmap,
                  componentRegions, regions, regionIdx, localVertices,
                  localTriangles, vertexMap, objectsData, xml>>

\* state of export3MF (export3mf.ts)
exportVars == <<colorLayers, layerIdx, modelXml>>

\* state of generateMeshFromContours (contourMesh.ts)
contourVars == <<mask, thickness, voxelSize, maskVisited, contours,
                 contourIdx, allVertices, allIndices, remainingAtReturn,
                 warnings>>

\* state of the command line tool (cli.ts, processor.ts) and its files
cliVars == <<imageExists, openscadInstalled, configFile, outputFile,
             loadedConfig, coloredObjects, scadCalls, colorPos, exitCode,
             errorMessage, runs, filesAtStart>>

\* everything outside generate3DModel
otherVars == <<exportVars, contourVars, cliVars>>

vars == <<pc, generateVars, otherVars>>

\* ------------------------------------------------------------ arithmetic
Min(a, b) == IF a < b THEN a ELSE b

Abs(v) == IF v < 0 THEN -v ELSE v

\* a / b rounded to the nearest unit, a >= 0 and b > 0
RoundDiv(a, b) == (a + (b \div 2)) \div b

\* Number.prototype.toFixed(digits): sign and the rounded magnitude
ToFixed(v, digits) ==
  LET q == 10 ^ (FracDigits - digits)
  IN  [neg |-> v < 0, n |-> RoundDiv(Abs(v), q)]

SeqToSet(s) == {s[i] : i \in 1 .. Len(s)}

\* ------------------------------------------------------- model placement
aspectDepth(w) == RoundDiv(w * imgHeight, imgWidth)

offsetX(w) == centerX - (w \div 2)

offsetY(w) == centerY - (aspectDepth(w) \div 2)

PosX(gx, w) == RoundDiv(gx * w, imgWidth) + offsetX(w)

PosY(gy, w) == RoundDiv(gy * aspectDepth(w), imgHeight) + offsetY(w)

\* ------------------------------------------------------- region extraction
InBounds(p) == p[1] >= 0 /\ p[1] < imgWidth /\ p[2] >= 0 /\ p[2] < imgHeight

\* position of a cell in the row-major scan (for y, for x)
ScanPos(p) == p[2] * imgWidth + p[1]

CellAt(i) == <<i % imgWidth, i \div imgWidth>>

\* variant: the neighbour above (y - 1) is left out
NeighborsNoUp(pixel) ==
  << <<pixel[1] - 1, pixel[2]>>, <<pixel[1] + 1, pixel[2]>>,
     <<pixel[1], pixel[2] + 1>> >>

\* the four neighbours of a pixel, in the order the code lists them
Neighbors(pixel) ==
  << <<pixel[1] - 1, pixel[2]>>, <<pixel[1] + 1, pixel[2]>>,
     <<pixel[1], pixel[2] - 1>>, <<pixel[1], pixel[2] + 1>> >>

Accepts(cmap, targetColor, seen, n) ==
  InBounds(n) /\ n \notin seen /\ cmap[n] = targetColor

\* the while (queue.length > 0) loop of the flood fill
RECURSIVE FloodFill(_, _, _, _, _)
FloodFill(cmap, targetColor, queue, seen, component) ==
  IF queue = <<>>
  THEN [component |-> component, visited |-> seen]
  ELSE LET pixel == Head(queue)
           nbrs == Neighbors(pixel)
           fresh == SelectSeq(nbrs,
                      LAMBDA n : Accepts(cmap, targetColor, seen, n))
       IN  FloodFill(cmap, targetColor, Tail(queue) \o fresh,
                     seen \cup SeqToSet(fresh), Append(component, pixel))

\* cells the outer scan of mergeAdjacentVoxels can still start from
Unvisited(cmap, targetColor, seen) ==
  {p \in Cells : p \notin seen /\ cmap[p] = targetColor}

FirstInScan(S) == CHOOSE p \in S : \A q \in S : ScanPos(p) <= ScanPos(q)

\* ------------------------------------------------ rectangle decomposition
NoRect == [x1 |-> 0, y1 |-> 0, x2 |-> 0, y2 |-> 0, area |-> 0]

RectCells(r) == {p \in Cells : r.x1 <= p[1] /\ p[1] < r.x2
                              /\ r.y1 <= p[2] /\ p[2] < r.y2}

\* for (x = startX; x < limit && x < width && bitmap[y][x]; x++) count++
RECURSIVE RowWidth(_, _, _, _)
RowWidth(bmp, x, y, limit) ==
  IF x < limit /\ x < imgWidth /\ <<x, y>> \in bmp
  THEN 1 + RowWidth(bmp, x + 1, y, limit)
  ELSE 0

\* variant: the usable width is not narrowed to the row's width
NarrowWidthKeep(currentWidth, rowWidth) == currentWidth

NarrowWidth(currentWidth, rowWidth) == Min(currentWidth, rowWidth)

\* the downward extension loop of findLargestRectangleFrom
RECURSIVE ExtendDown(_, _, _, _, _, _)
ExtendDown(bmp, startX, startY, y, currentWidth, bestRect) ==
  IF ~(y < imgHeight /\ currentWidth > 0)
  THEN bestRect
  ELSE LET rowWidth == RowWidth(bmp, startX, y, startX + currentWidth)
       IN  IF rowWidth = 0
           THEN bestRect
           ELSE LET cw == NarrowWidth(currentWidth, rowWidth)
                    area == cw * (y - startY + 1)
                    better == [x1 |-> startX, y1 |-> startY,
                               x2 |-> startX + cw, y2 |-> y + 1,
                               area |-> area]
                IN  ExtendDown(bmp, startX, startY, y + 1, cw,
                               IF area > bestRect.area THEN better
                                                       ELSE bestRect)

\* variant: the starting row only, never extended downward
findLargestRectangleFromRowOnly(bmp, startX, startY) ==
  IF <<startX, startY>> \notin bmp
  THEN NoRect
  ELSE LET maxWidth == RowWidth(bmp, startX, startY, imgWidth)
       IN  [x1 |-> startX, y1 |-> startY, x2 |-> startX + maxWidth,
            y2 |-> startY + 1, area |-> maxWidth]

\* NoRect stands for null
findLargestRectangleFrom(bmp, startX, startY) ==
  IF <<startX, startY>> \notin bmp
  THEN NoRect
  ELSE LET maxWidth == RowWidth(bmp, startX, startY, imgWidth)
           first == [x1 |-> startX, y1 |-> startY, x2 |-> startX + 1,
                     y2 |-> startY + 1, area |-> 1]
       IN  ExtendDown(bmp, startX, startY, startY, maxWidth, first)

\* variant: a later candidate of equal area replaces bestRect
RECURSIVE ScanBestLastWins(_, _, _)
ScanBestLastWins(bmp, i, bestRect) ==
  IF i >= imgWidth * imgHeight
  THEN bestRect
  ELSE LET p == CellAt(i)
           rect == IF p \in bmp
                   THEN findLargestRectangleFrom(bmp, p[1], p[2])
                   ELSE NoRect
       IN  ScanBestLastWins(bmp, i + 1,
                    IF rect.area >= bestRect.area /\ rect.area > 0
                    THEN rect ELSE bestRect)

\* the double scan loop of one greedy iteration; area 0 is "no bestRect"
RECURSIVE ScanBest(_, _, _)
ScanBest(bmp, i, bestRect) ==
  IF i >= imgWidth * imgHeight
  THEN bestRect
  ELSE LET p == CellAt(i)
           rect == IF p \in bmp
                   THEN findLargestRectangleFrom(bmp, p[1], p[2])
                   ELSE NoRect
       IN  ScanBest(bmp, i + 1,
                    IF rect.area > bestRect.area THEN rect ELSE bestRect)

BestRect(bmp) == ScanBest(bmp, 0, NoRect)

Region(r) == [x1 |-> r.x1, y1 |-> r.y1, x2 |-> r.x2, y2 |-> r.y2]

\* ------------------------------------------------ command line tool data
\* undefined / no such file
Undefined == [undefined |-> TRUE]

\* processedImage.modalColors of the image the tool is run on
ModalColors == <<"#ff0000", "#0000ff">>

\* generateDefaultConfig: every modal colour at height 1.2, options {};
\* colors.entries is Object.entries(config.colors)
\* (lengths of the tool in tenths of a millimetre)
generateDefaultConfig(modalColors) ==
  [colors |-> [entries |-> [i \in 1 .. Len(modalColors) |->
                 [hex |-> modalColors[i], height |-> DefaultColorHeight]]],
   backing |-> Undefined, sandwich |-> Undefined]

\* what the user may leave in the .jsonc file before the next run: the
\* colour heights and the two options edited, or the colors field removed
EditedConfigs ==
  [colors : {[entries |-> [i \in 1 .. Len(ModalColors) |->
                [hex |-> ModalColors[i], height |-> h[i]]]] :
               h \in [1 .. Len(ModalColors) -> {DefaultColorHeight, 20}]}
            \cup {Undefined},
   backing : {Undefined, [thickness |-> 0], [thickness |-> 12]},
   sandwich : {Undefined, [thickness |-> 10]}]

\* the mesh parse3MF reads back from what OpenSCAD wrote for a mask
\* extruded to height: the tool decides the footprint s
OpenSCADMesh(height, s) ==
  [vertices |-> << [x |-> 0, y |-> 0, z |-> 0], [x |-> s, y |-> 0, z |-> 0],
                  [x |-> 0, y |-> s, z |-> 0], [x |-> 0, y |-> 0, z |-> height] >>,
   triangles |-> << <<0, 2, 1>>, <<0, 1, 3>>, <<0, 3, 2>>, <<1, 2, 3>> >>]

Footprints == {1, 2}

\* let zOffset = 0; if (hasBackingMode) zOffset = backing.thickness
zOffset(cfg) == IF cfg.backing # Undefined THEN cfg.backing.thickness ELSE 0

\* colorHeight: colorConfig.height, clamped to the sandwich thickness
colorHeight(cfg, colorConfig) ==
  IF cfg.backing = Undefined /\ cfg.sandwich # Undefined
       /\ colorConfig.height > cfg.sandwich.thickness
  THEN cfg.sandwich.thickness
  ELSE colorConfig.height

\* variant: the colours are raised above a sandwich layer as well
OffsetMeshAnyBackplane(cfg, mesh) ==
  LET plane == IF cfg.backing # Undefined THEN cfg.backing ELSE cfg.sandwich
  IN  IF plane # Undefined
      THEN [mesh EXCEPT !.vertices =
              [k \in 1 .. Len(mesh.vertices) |->
                 [mesh.vertices[k] EXCEPT !.z = @ + plane.thickness]]]
      ELSE mesh

\* for (const vertex of mesh.vertices) vertex.z += zOffset, in backing
\* mode with a zOffset other than 0
OffsetMesh(cfg, mesh) ==
  IF cfg.backing # Undefined /\ zOffset(cfg) # 0
  THEN [mesh EXCEPT !.vertices =
          [k \in 1 .. Len(mesh.vertices) |->
             [mesh.vertices[k] EXCEPT !.z = @ + zOffset(cfg)]]]
  ELSE mesh

\* ---------------------------------------------------------- mesh builder
VertexKey(x, y, z) ==
  <<ToFixed(x, KeyDecimals), ToFixed(y, KeyDecimals), ToFixed(z, KeyDecimals)>>

KeyOf(v) == VertexKey(v.x, v.y, v.z)

EmptyMap == [k \in {} |-> 0]

\* variant: one vertex map for all colours
SharedVertexMap == vertexMap

\* new Map<string, number>() at the top of each colour's iteration
FreshVertexMap == EmptyMap

\* variant: every request makes a new vertex
GetOrCreateVertexAlwaysNew(vertices, vmap, x, y, z) ==
  [vertices |-> Append(vertices, [x |-> x, y |-> y, z |-> z]),
   vmap |-> vmap, index |-> Len(vertices)]

\* getOrCreateVertex: the index of the key, a new vertex if it has none
GetOrCreateVertex(vertices, vmap, x, y, z) ==
  LET key == VertexKey(x, y, z)
  IN  IF key \in DOMAIN vmap
      THEN [vertices |-> vertices, vmap |-> vmap, index |-> vmap[key]]
      ELSE [vertices |-> Append(vertices, [x |-> x, y |-> y, z |-> z]),
            vmap |-> vmap @@ (key :> Len(vertices)),
            index |-> Len(vertices)]

\* the 8 corners of a box in the order addVoxelManifold requests them
BoxCorners(x1, y1, z1, x2, y2, z2, front) ==
  LET yFront == IF front THEN y1 ELSE y2
      yBack == IF front THEN y2 ELSE y1
  IN  << <<x1, yFront, z1>>, <<x2, yFront, z1>>, <<x2, yBack, z1>>,
         <<x1, yBack, z1>>, <<x1, yFront, z2>>, <<x2, yFront, z2>>,
         <<x2, yBack, z2>>, <<x1, yBack, z2>> >>

\* variant: the bottom face is left out
BoxFacesOpenBottom ==
  << <<0, 1, 5>>, <<0, 5, 4>>, <<2, 3, 7>>, <<2, 7, 6>>,
     <<3, 0, 4>>, <<3, 4, 7>>, <<1, 2, 6>>, <<1, 6, 5>>,
     <<4, 5, 6>>, <<4, 6, 7>> >>

\* the 12 template triangles over v0..v7 (0-based corner numbers)
BoxFaces ==
  << <<0, 1, 5>>, <<0, 5, 4>>, <<2, 3, 7>>, <<2, 7, 6>>,
     <<3, 0, 4>>, <<3, 4, 7>>, <<1, 2, 6>>, <<1, 6, 5>>,
     <<4, 5, 6>>, <<4, 6, 7>>, <<3, 2, 1>>, <<3, 1, 0>> >>

RECURSIVE ResolveCorners(_, _, _, _, _)
ResolveCorners(vertices, vmap, corners, i, indices) ==
  IF i > Len(corners)
  THEN [vertices |-> vertices, vmap |-> vmap, indices |-> indices]
  ELSE LET c == corners[i]
           r == GetOrCreateVertex(vertices, vmap, c[1], c[2], c[3])
       IN  ResolveCorners(r.vertices, r.vmap, corners, i + 1,
                          Append(indices, r.index))

addVoxelManifold(vertices, vmap, triangles, x1, y1, z1, x2, y2, z2, ci, front) ==
  LET r == ResolveCorners(vertices, vmap,
                          BoxCorners(x1, y1, z1, x2, y2, z2, front), 1, <<>>)
      v == r.indices
      faces == [k \in 1 .. Len(BoxFaces) |->
                  [v1 |-> v[BoxFaces[k][1] + 1], v2 |-> v[BoxFaces[k][2] + 1],
                   v3 |-> v[BoxFaces[k][3] + 1], colorIndex |-> ci]]
  IN  [vertices |-> r.vertices, vmap |-> r.vmap,
       triangles |-> triangles \o faces]

\* bevelSize = Math.min(x2 - x1, y2 - y1) * 0.15
bevelSize(x1, y1, x2, y2) == RoundDiv(Min(x2 - x1, y2 - y1) * 3, 20)

\* the 16 corners of a chamfered prism in the order
\* addSmoothedVoxelManifold requests them: v0..v7 at z1, v8..v15 at z2
SmoothCorners(x1, y1, z1, x2, y2, z2, front) ==
  LET b == bevelSize(x1, y1, x2, y2)
      yFront == IF front THEN y1 ELSE y2
      yBack == IF front THEN y2 ELSE y1
      ring(z) == << <<x1 + b, yFront, z>>, <<x2 - b, yFront, z>>,
                    <<x2, yFront + b, z>>, <<x2, yBack - b, z>>,
                    <<x2 - b, yBack, z>>, <<x1 + b, yBack, z>>,
                    <<x1, yBack - b, z>>, <<x1, yFront + b, z>> >>
  IN  ring(z1) \o ring(z2)

\* the faces array of addSmoothedVoxelManifold over v0..v15: bottom
\* octagon, top octagon, then two triangles for each of the 8 sides
SmoothFaces ==
  << <<0, 1, 2>>, <<0, 2, 7>>, <<2, 3, 7>>, <<3, 6, 7>>, <<3, 4, 6>>,
     <<4, 5, 6>>, <<5, 6, 0>>, <<5, 0, 1>>, <<1, 4, 2>>, <<2, 4, 3>>,
     <<8, 10, 9>>, <<8, 15, 10>>, <<10, 15, 11>>, <<11, 15, 14>>,
     <<11, 14, 12>>, <<12, 14, 13>>, <<13, 14, 8>>, <<13, 8, 9>>,
     <<9, 10, 12>>, <<10, 11, 12>>,
     <<0, 8, 9>>, <<0, 9, 1>>, <<1, 9, 10>>, <<1, 10, 2>>,
     <<2, 10, 11>>, <<2, 11, 3>>, <<3, 11, 12>>, <<3, 12, 4>>,
     <<4, 12, 13>>, <<4, 13, 5>>, <<5, 13, 14>>, <<5, 14, 6>>,
     <<6, 14, 15>>, <<6, 15, 7>>, <<7, 15, 8>>, <<7, 8, 0>> >>

addSmoothedVoxelManifold(vertices, vmap, triangles, x1, y1, z1, x2, y2, z2, ci, front) ==
  LET r == ResolveCorners(vertices, vmap,
                          SmoothCorners(x1, y1, z1, x2, y2, z2, front), 1, <<>>)
      v == r.indices
      faces == [k \in 1 .. Len(SmoothFaces) |->
                  [v1 |-> v[SmoothFaces[k][1] + 1],
                   v2 |-> v[SmoothFaces[k][2] + 1],
                   v3 |-> v[SmoothFaces[k][3] + 1], colorIndex |-> ci]]
  IN  [vertices |-> r.vertices, vmap |-> r.vmap,
       triangles |-> triangles \o faces]

\* shouldSmooth = useSmoothing && (imgWidth >= 100 || imgHeight >= 100),
\* the image being the grid drawn at imageScale pixels per cell
shouldSmooth ==
  /\ useSmoothing
  /\ \/ imgWidth * imageScale >= SmoothMinSize
     \/ imgHeight * imageScale >= SmoothMinSize

RECURSIVE HeightsBelow(_, _)
HeightsBelow(ci, heights) ==
  IF ci = 0 THEN 0 ELSE heights[ci - 1] + HeightsBelow(ci - 1, heights)

\* variant: each layer sits on top of the layers before it
LayerZStacked(ci, heights) ==
  [baseZ |-> HeightsBelow(ci, heights),
   topZ |-> HeightsBelow(ci, heights) + heights[ci]]

\* baseZ and topZ of a colour layer
LayerZ(ci, heights) == [baseZ |-> 0, topZ |-> heights[ci]]

\* variant: the object is added whether or not it has geometry
HasGeometryAlways(vertices) == TRUE

\* "Only add object if it has geometry"
HasGeometry(vertices) == Len(vertices) > 0

\* -------------------------------------------------------------- serialiser
HexPair(n) == <<n \div 16, n % 16>>

\* the palette handed over in config.colors (r, g, b per colour)
colors == [i \in ColorIndices |-> <<255 - 17 * i, 17 * i, (85 * i) % 256>>]

\* "#RRGGBB" as its six hex digits
rgbToColorString(c) == HexPair(c[1]) \o HexPair(c[2]) \o HexPair(c[3])

BaseMaterials ==
  [i \in 1 .. NumColors |->
     [name |-> i, displaycolor |-> rgbToColorString(colors[i - 1])]]

\* variant: the id follows the colour index instead of the object position
ObjectIdByColor(idx, objData) == objData.colorIndex + FirstObjectId

\* const objectId = idx + 2 (idx is the 0-based position in objectsData)
ObjectId(idx, objData) == idx + FirstObjectId

XmlVertex(v) == [x |-> ToFixed(v.x, XmlDecimals), y |-> ToFixed(v.y, XmlDecimals),
                 z |-> ToFixed(v.z, XmlDecimals)]

XmlTriangle(t) == [v1 |-> t.v1, v2 |-> t.v2, v3 |-> t.v3]

\* variant: the material index follows the object's position
MaterialIndexByPosition(idx, objData) == idx

\* pindex="${objData.colorIndex}"
MaterialIndex(idx, objData) == objData.colorIndex

XmlObject(idx, objData) ==
  [id |-> ObjectId(idx, objData), type |-> "model", pid |-> 1,
   pindex |-> MaterialIndex(idx, objData),
   vertices |-> [k \in 1 .. Len(objData.vertices) |->
                   XmlVertex(objData.vertices[k])],
   triangles |-> [k \in 1 .. Len(objData.triangles) |->
                    XmlTriangle(objData.triangles[k])]]

\* variant: one build item per palette colour
BuildItemsPerColor(objs) ==
  [i \in 1 .. NumColors |-> [objectid |-> (i - 1) + FirstObjectId]]

\* one <item objectid=.../> per entry of objectsData
BuildItems(objs) ==
  [i \in 1 .. Len(objs) |-> [objectid |-> (i - 1) + FirstObjectId]]

ModelXml(objs) ==
  [unit |-> "millimeter",
   basematerials |-> [id |-> 1, colorspace |-> "sRGB", bases |-> BaseMaterials],
   objects |-> [i \in 1 .. Len(objs) |-> XmlObject(i - 1, objs[i])],
   build |-> BuildItems(objs)]

NoXml == [unit |-> "none"]

\* ------------------------------------------------- export3MF (export3mf.ts)
\* layer.mesh is optional: the value of a layer without one
NoMesh == [undefined |-> TRUE]

\* a closed mesh of four triangles with edge s, as flat arrays
Tetrahedron(s) ==
  [vertices |-> <<0, 0, 0,  s, 0, 0,  0, s, 0,  0, 0, s>>,
   indices |-> <<0, 2, 1,  0, 1, 3,  0, 3, 2,  1, 2, 3>>]

LayerMeshes == {NoMesh, Tetrahedron(UnitsPerMm), Tetrahedron(2 * UnitsPerMm)}

LayerColors == {<<255, 0, 0>>, <<0, 128, 255>>}

\* const defaultLayerHeight = 2.0
DefaultLayerHeight == 2 * UnitsPerMm

ColorLayerValues ==
  [color : LayerColors, height : {DefaultLayerHeight}, mesh : LayerMeshes]

\* color.map(c => c.toString(16).padStart(2, '0')).join('').toUpperCase()
colorToHex(color) == HexPair(color[1]) \o HexPair(color[2]) \o HexPair(color[3])

\* <base name="Color${idx}" displaycolor="#${hexColor}"/> for every layer
ExportBases(layers) ==
  [i \in 1 .. Len(layers) |->
     [name |-> <<"Color", i - 1>>, displaycolor |-> colorToHex(layers[i].color)]]

\* <triangle v1=.. v2=.. v3=.. pid="1" p1="${idx}"/>, t-th triangle (0-based)
ExportTriangle(mesh, t, idx) ==
  [v1 |-> mesh.indices[3 * t + 1], v2 |-> mesh.indices[3 * t + 2],
   v3 |-> mesh.indices[3 * t + 3], pid |-> 1, p1 |-> idx]

\* <vertex x=.. y=.. z=../>, i-th vertex (0-based), numbers written as they are
ExportVertex(mesh, i) ==
  [x |-> mesh.vertices[3 * i + 1], y |-> mesh.vertices[3 * i + 2],
   z |-> mesh.vertices[3 * i + 3]]

\* the <object> element of the layer at position idx
ExportObject(layer, idx) ==
  [id |-> idx + FirstObjectId, type |-> "model",
   vertices |-> [k \in 1 .. (Len(layer.mesh.vertices) \div 3) |->
                   ExportVertex(layer.mesh, k - 1)],
   triangles |-> [k \in 1 .. (Len(layer.mesh.indices) \div 3) |->
                    ExportTriangle(layer.mesh, k - 1, idx)]]

\* <item objectid="${idx + 2}"/> for every layer that has a mesh
RECURSIVE ExportItems(_, _)
ExportItems(layers, i) ==
  IF i > Len(layers)
  THEN <<>>
  ELSE (IF layers[i].mesh # NoMesh
        THEN <<[objectid |-> (i - 1) + FirstObjectId]>>
        ELSE <<>>) \o ExportItems(layers, i + 1)

\* ------------------------------ generateMeshFromContours (contourMesh.ts)
\* Coordinates, thickness and voxel size are whole millimetres here, which
\* Float32Array stores exactly.
MaskCells == (0 .. MaskW - 1) \X (0 .. MaskH - 1)

Thicknesses == {2, 3}
VoxelSizes == {1, 2}

getPixel(m, x, y) ==
  IF x < 0 \/ x >= MaskW \/ y < 0 \/ y >= MaskH THEN 0 ELSE m[<<x, y>>]

\* the while (queue.length > 0) loop of floodFill
RECURSIVE floodFill(_, _, _, _)
floodFill(m, queue, seen, pixels) ==
  IF queue = <<>>
  THEN [pixels |-> pixels, visited |-> seen]
  ELSE LET p == Head(queue)
           neighbors == << <<p[1] + 1, p[2]>>, <<p[1] - 1, p[2]>>,
                           <<p[1], p[2] + 1>>, <<p[1], p[2] - 1>> >>
           fresh == SelectSeq(neighbors,
                      LAMBDA n : /\ n \in MaskCells
                                 /\ m[n] = 1
                                 /\ n \notin seen)
       IN  floodFill(m, Tail(queue) \o fresh, seen \cup SeqToSet(fresh),
                     Append(pixels, p))

\* the four-point contour of the bounding box of the pixels
BoundingBoxContour(pixels) ==
  LET xs == {pixels[i][1] : i \in 1 .. Len(pixels)}
      ys == {pixels[i][2] : i \in 1 .. Len(pixels)}
      minX == CHOOSE v \in xs : \A u \in xs : v <= u
      maxX == CHOOSE v \in xs : \A u \in xs : v >= u
      minY == CHOOSE v \in ys : \A u \in ys : v <= u
      maxY == CHOOSE v \in ys : \A u \in ys : v >= u
  IN  << <<minX, minY>>, <<maxX + 1, minY>>, <<maxX + 1, maxY + 1>>,
         <<minX, maxY + 1>> >>

\* the four corners of every pixel of the sequence, in the code's order
PixelCorners(pixels) ==
  [i \in 1 .. 4 * Len(pixels) |->
     LET p == pixels[((i - 1) \div 4) + 1]
         c == (i - 1) % 4
     IN  <<p[1] + (IF c \in {1, 2} THEN 1 ELSE 0),
           p[2] + (IF c \in {2, 3} THEN 1 ELSE 0)>>]

\* the elements of a sequence in the order of their first occurrence
\* (the vertexSet test of mooreNeighborTracing)
RECURSIVE FirstOccurrences(_)
FirstOccurrences(seq) ==
  IF seq = <<>>
  THEN <<>>
  ELSE LET d == FirstOccurrences(SubSeq(seq, 1, Len(seq) - 1))
           e == seq[Len(seq)]
       IN  IF e \in SeqToSet(d) THEN d ELSE Append(d, e)

\* where Math.atan2(dy, dx) lies: 0 in (-pi, 0), 1 at 0 (also for the zero
\* vector), 2 in (0, pi), 3 at pi
AngleClass(dx, dy) ==
  IF dy < 0 THEN 0
  ELSE IF dy = 0 /\ dx >= 0 THEN 1
  ELSE IF dy > 0 THEN 2
  ELSE 3

\* the sign of angleA - angleB for the angles of a and b about the centroid
\* (sumX / n, sumY / n), computed exactly on the vectors scaled by n
AngleCompare(a, b, sumX, sumY, n) ==
  LET ax == n * a[1] - sumX
      ay == n * a[2] - sumY
      bx == n * b[1] - sumX
      by == n * b[2] - sumY
      ca == AngleClass(ax, ay)
      cb == AngleClass(bx, by)
      cross == ax * by - ay * bx
  IN  IF ca # cb THEN (IF ca < cb THEN -1 ELSE 1)
      ELSE IF ca \in {1, 3} THEN 0
      ELSE IF cross > 0 THEN -1
      ELSE IF cross < 0 THEN 1
      ELSE 0

\* variant: the points are left in the order they were collected
sortBoundaryPointsUnsorted(points) == points

\* points.slice().sort(by angle from the centroid); the sort is stable, so
\* points at the same angle keep their order
sortBoundaryPoints(points) ==
  IF Len(points) < 3
  THEN points
  ELSE LET n == Len(points)
           RECURSIVE Sum(_, _)
           Sum(i, c) == IF i > n THEN 0 ELSE points[i][c] + Sum(i + 1, c)
           sumX == Sum(1, 1)
           sumY == Sum(1, 2)
           Before(j, i) ==
             LET cmp == AngleCompare(points[j], points[i], sumX, sumY, n)
             IN  cmp < 0 \/ (cmp = 0 /\ j < i)
           Rank(i) == 1 + Cardinality({j \in 1 .. n : j # i /\ Before(j, i)})
       IN  [k \in 1 .. n |-> points[CHOOSE i \in 1 .. n : Rank(i) = k]]

\* simplifyContour: drop the points that are colinear with their neighbours
simplifyContour(points) ==
  IF Len(points) < 3
  THEN points
  ELSE LET n == Len(points)
           Keep(i) ==
             LET prev == points[((i - 2 + n) % n) + 1]
                 curr == points[i]
                 next == points[(i % n) + 1]
                 cross == (curr[1] - prev[1]) * (next[2] - curr[2])
                            - (curr[2] - prev[2]) * (next[1] - curr[1])
             IN  cross # 0
           RECURSIVE Kept(_)
           Kept(i) == IF i > n THEN <<>>
                      ELSE (IF Keep(i) THEN <<points[i]>> ELSE <<>>)
                             \o Kept(i + 1)
           simplified == Kept(1)
       IN  IF Len(simplified) >= 3 THEN simplified ELSE points

\* mooreNeighborTracing: boundary pixels, their boundary corners, the angle
\* sort and the simplification
mooreNeighborTracing(m, pixels) ==
  LET hasEmptyNeighbor(p) ==
        \/ getPixel(m, p[1] + 1, p[2]) = 0 \/ getPixel(m, p[1], p[2] + 1) = 0
        \/ getPixel(m, p[1] - 1, p[2]) = 0 \/ getPixel(m, p[1], p[2] - 1) = 0
      found == SelectSeq(pixels, hasEmptyNeighbor)
      boundaryPixels == IF Len(found) = 0 THEN pixels ELSE found
      filledCount(c) ==
        getPixel(m, c[1] - 1, c[2] - 1) + getPixel(m, c[1], c[2] - 1)
          + getPixel(m, c[1] - 1, c[2]) + getPixel(m, c[1], c[2])
      onBoundary(c) == filledCount(c) > 0 /\ filledCount(c) < 4
      corners == FirstOccurrences(SelectSeq(PixelCorners(boundaryPixels),
                                            onBoundary))
      vertices == IF Len(corners) < 3
                  THEN corners \o PixelCorners(boundaryPixels)
                  ELSE corners
      sorted == sortBoundaryPoints(vertices)
      simplified == simplifyContour(sorted)
  IN  IF Len(simplified) >= 3 THEN simplified ELSE sorted

\* variant: every region is traced, however small
traceMarchingSquaresContourAlwaysTraced(m, pixels) ==
  mooreNeighborTracing(m, pixels)

\* the contour of one component: its bounding box if it has fewer than 4
\* pixels or the tracing gives fewer than 3 points
traceMarchingSquaresContour(m, pixels) ==
  IF Len(pixels) < 4
  THEN BoundingBoxContour(pixels)
  ELSE LET contourPoints == mooreNeighborTracing(m, pixels)
       IN  IF Len(contourPoints) < 3
           THEN BoundingBoxContour(pixels)
           ELSE contourPoints

pointInTriangle(p, a, b, c) ==
  LET sign(p1, p2, p3) ==
        (p1[1] - p3[1]) * (p2[2] - p3[2]) - (p2[1] - p3[1]) * (p1[2] - p3[2])
      d1 == sign(p, a, b)
      d2 == sign(p, b, c)
      d3 == sign(p, c, a)
      hasNeg == d1 < 0 \/ d2 < 0 \/ d3 < 0
      hasPos == d1 > 0 \/ d2 > 0 \/ d3 > 0
  IN  ~(hasNeg /\ hasPos)

\* indices are 0-based positions in points, as in the code
isEar(points, remaining, prevIdx, currIdx, nextIdx) ==
  LET prev == points[prevIdx + 1]
      curr == points[currIdx + 1]
      next == points[nextIdx + 1]
      cross == (curr[1] - prev[1]) * (next[2] - prev[2])
                 - (curr[2] - prev[2]) * (next[1] - prev[1])
  IN  /\ cross > 0
      /\ \A k \in 1 .. Len(remaining) :
           remaining[k] \in {prevIdx, currIdx, nextIdx}
             \/ ~pointInTriangle(points[remaining[k] + 1], prev, curr, next)

\* variant: the fan stops after its first triangle
FanTrianglesFirstOnly(remaining, i) ==
  <<remaining[1], remaining[2], remaining[3]>>

\* the fan of the fallback: (remaining[0], remaining[i], remaining[i+1])
RECURSIVE FanTriangles(_, _)
FanTriangles(remaining, i) ==
  IF i >= Len(remaining)
  THEN <<>>
  ELSE <<remaining[1], remaining[i], remaining[i + 1]>>
         \o FanTriangles(remaining, i + 1)

\* the while (remaining.length > 3) loop and the last triangle
RECURSIVE EarClipping(_, _, _)
EarClipping(points, remaining, indices) ==
  LET n == Len(remaining)
      prevOf(i) == remaining[((i - 2 + n) % n) + 1]
      nextOf(i) == remaining[(i % n) + 1]
      ears == {i \in 1 .. n :
                 isEar(points, remaining, prevOf(i), remaining[i], nextOf(i))}
  IN  IF n <= 3
      THEN [indices |-> IF n = 3 THEN indices \o remaining ELSE indices,
            remaining |-> remaining, warned |-> FALSE]
      ELSE IF ears = {}
      THEN [indices |-> indices \o FanTriangles(remaining, 2),
            remaining |-> remaining, warned |-> TRUE]
      ELSE LET i == CHOOSE e \in ears : \A f \in ears : e <= f
           IN  EarClipping(points,
                 SubSeq(remaining, 1, i - 1) \o SubSeq(remaining, i + 1, n),
                 indices \o <<prevOf(i), remaining[i], nextOf(i)>>)

\* triangulatePolygon: flat triangle indices, and whether it warned
triangulatePolygon(points) ==
  LET n == Len(points)
  IN  IF n < 3 THEN [indices |-> <<>>, remaining |-> <<>>, warned |-> FALSE]
      ELSE IF n = 3
      THEN [indices |-> <<0, 1, 2>>, remaining |-> <<>>, warned |-> FALSE]
      ELSE IF n = 4
      THEN [indices |-> <<0, 1, 2, 0, 2, 3>>, remaining |-> <<>>,
            warned |-> FALSE]
      ELSE EarClipping(points, [i \in 1 .. n |-> i - 1], <<>>)

\* variant: the side quad of the last polygon edge is left out
ExtrudeContourMeshOpenSide(points, baseIdx, t, vs) ==
  LET n == Len(points)
      RECURSIVE Ring(_, _)
      Ring(i, z) == IF i > n THEN <<>>
                    ELSE <<points[i][1] * vs, points[i][2] * vs, z>>
                           \o Ring(i + 1, z)
      faceIndices == triangulatePolygon(points).indices
      RECURSIVE Caps(_)
      Caps(i) == IF i > Len(faceIndices) THEN <<>>
                 ELSE <<baseIdx + faceIndices[i], baseIdx + faceIndices[i + 2],
                        baseIdx + faceIndices[i + 1],
                        baseIdx + n + faceIndices[i],
                        baseIdx + n + faceIndices[i + 1],
                        baseIdx + n + faceIndices[i + 2]>> \o Caps(i + 3)
      RECURSIVE Sides(_)
      Sides(i) ==
        IF i >= n - 1 THEN <<>>
        ELSE <<baseIdx + i, baseIdx + i + 1, baseIdx + n + i + 1,
               baseIdx + i, baseIdx + n + i + 1, baseIdx + n + i>>
               \o Sides(i + 1)
  IN  [vertices |-> Ring(1, 0) \o Ring(1, t),
       indices |-> Caps(1) \o Sides(0),
       warned |-> FALSE]

\* the body of the for (const contour of contours) loop: the vertices and
\* indices one contour adds, baseIdx being allVertices.length / 3
ExtrudeContourMesh(points, baseIdx, t, vs) ==
  LET n == Len(points)
      RECURSIVE Ring(_, _)
      Ring(i, z) == IF i > n THEN <<>>
                    ELSE <<points[i][1] * vs, points[i][2] * vs, z>>
                           \o Ring(i + 1, z)
      tri == triangulatePolygon(points)
      faceIndices == tri.indices
      RECURSIVE Front(_)
      Front(i) == IF i > Len(faceIndices) THEN <<>>
                  ELSE <<baseIdx + faceIndices[i], baseIdx + faceIndices[i + 2],
                         baseIdx + faceIndices[i + 1]>> \o Front(i + 3)
      RECURSIVE Back(_)
      Back(i) == IF i > Len(faceIndices) THEN <<>>
                 ELSE <<baseIdx + n + faceIndices[i],
                        baseIdx + n + faceIndices[i + 1],
                        baseIdx + n + faceIndices[i + 2]>> \o Back(i + 3)
      RECURSIVE Sides(_)
      Sides(i) ==
        IF i >= n THEN <<>>
        ELSE LET next == (i + 1) % n
                 frontCurrent == baseIdx + i
                 frontNext == baseIdx + next
                 backCurrent == baseIdx + n + i
                 backNext == baseIdx + n + next
             IN  <<frontCurrent, frontNext, backNext,
                   frontCurrent, backNext, backCurrent>> \o Sides(i + 1)
  IN  [vertices |-> Ring(1, 0) \o Ring(1, t),
       indices |-> Front(1) \o Back(1) \o Sides(0),
       warned |-> tri.warned]

\* the loop of calculateMeshVolume: the sum of v1 . (v2 x v3) over the
\* triangles of flat vertex and index arrays
SignedVolumeSum(vertices, indices) ==
  LET V(k, c) == vertices[3 * k + c]
      RECURSIVE Sum(_)
      Sum(i) ==
        IF i > Len(indices) THEN 0
        ELSE LET a == indices[i]
                 b == indices[i + 1]
                 c == indices[i + 2]
                 crossX == V(b, 2) * V(c, 3) - V(b, 3) * V(c, 2)
                 crossY == V(b, 3) * V(c, 1) - V(b, 1) * V(c, 3)
                 crossZ == V(b, 1) * V(c, 2) - V(b, 2) * V(c, 1)
             IN  V(a, 1) * crossX + V(a, 2) * crossY + V(a, 3) * crossZ
                   + Sum(i + 3)
  IN  Sum(1)

\* variant: the sum is returned without the division by 6
calculateMeshVolumeNoSixth(vertices, indices) ==
  [num |-> Abs(SignedVolumeSum(vertices, indices)), den |-> 1]

\* calculateMeshVolume: Math.abs(signedVolume / 6) as the fraction num / den
calculateMeshVolume(vertices, indices) ==
  [num |-> Abs(SignedVolumeSum(vertices, indices)), den |-> 6]

\* ------------------------------------------------------------------- Init
\* generateMeshFromContours has not been called
ContourIdle ==
  /\ mask = [p \in MaskCells |-> 0]
  /\ thickness = 2
  /\ voxelSize = 1
  /\ maskVisited = {}
  /\ contours = <<>>
  /\ contourIdx = 0
  /\ allVertices = <<>>
  /\ allIndices = <<>>
  /\ remainingAtReturn = <<>>
  /\ warnings = 0

\* the command line tool has not been run
CliIdle ==
  /\ imageExists = FALSE
  /\ openscadInstalled = FALSE
  /\ configFile = Undefined
  /\ outputFile = Undefined
  /\ loadedConfig = Undefined
  /\ coloredObjects = <<>>
  /\ scadCalls = 0
  /\ colorPos = 0
  /\ exitCode = -1
  /\ errorMessage = ""
  /\ runs = 0
  /\ filesAtStart = [config |-> Undefined, output |-> Undefined]

\* export3MF has not been called
ExportIdle ==
  /\ colorLayers = <<>>
  /\ layerIdx = 0
  /\ modelXml = NoXml

\* the working state of generate3DModel before its per-colour loop
GenerateFresh ==
  /\ colorIndex = 0
  /\ visited = {}
  /\ components = <<>>
  /\ compIdx = 0
  /\ bitmap = {}
  /\ componentRegions = <<>>
  /\ regions = <<>>
  /\ regionIdx = 0
  /\ localVertices = <<>>
  /\ localTriangles = <<>>
  /\ vertexMap = EmptyMap
  /\ objectsData = <<>>
  /\ xml = NoXml

\* generate3DModel has not been called
GenerateIdle ==
  /\ colorMap = [p \in Cells |-> Transparent]
  /\ width = 20 * UnitsPerMm
  /\ colorHeights = [c \in ColorIndices |-> DefaultLayerHeight]
  /\ showOnFront = FALSE
  /\ useSmoothing = FALSE
  /\ imageScale = 1
  /\ GenerateFresh

Init ==
  /\ colorMap \in [Cells -> {Transparent} \cup ColorIndices]
  /\ width \in Widths
  /\ colorHeights \in [ColorIndices -> Heights]
  /\ showOnFront \in BOOLEAN
  /\ useSmoothing \in BOOLEAN
  /\ imageScale = 1
  /\ pc = "loopColor"
  /\ GenerateFresh
  /\ ExportIdle
  /\ ContourIdle
  /\ CliIdle

\* ---------------------------------------------------------------- actions
\* top of the per-colour loop: fresh lists and a fresh vertex map
BeginColor ==
  /\ pc = "loopColor"
  /\ colorIndex < NumColors
  /\ localVertices' = <<>>
  /\ localTriangles' = <<>>
  /\ vertexMap' = FreshVertexMap
  /\ visited' = {}
  /\ components' = <<>>
  /\ regions' = <<>>
  /\ componentRegions' = <<>>
  /\ bitmap' = {}
  /\ compIdx' = 0
  /\ regionIdx' = 0
  /\ pc' = "floodFill"
  /\ UNCHANGED <<otherVars, config, colorIndex, objectsData, xml>>

\* mergeAdjacentVoxels: the scan reaches an unvisited cell of the colour
FloodFillComponent ==
  /\ pc = "floodFill"
  /\ Unvisited(colorMap, colorIndex, visited) # {}
  /\ LET start == FirstInScan(Unvisited(colorMap, colorIndex, visited))
         r == FloodFill(colorMap, colorIndex, <<start>>,
                        visited \cup {start}, <<>>)
     IN  /\ visited' = r.visited
         /\ components' = IF Len(r.component) > 0
                          THEN Append(components, r.component)
                          ELSE components
  /\ UNCHANGED <<otherVars, config, pc, colorIndex, compIdx, bitmap, componentRegions,
                 regions, regionIdx, localVertices, localTriangles,
                 vertexMap, objectsData, xml>>

\* mergeAdjacentVoxels: the scan is over, decomposition of components starts
StartDecompose ==
  /\ pc = "floodFill"
  /\ Unvisited(colorMap, colorIndex, visited) = {}
  /\ IF Len(components) = 0
     THEN /\ pc' = "extrude"
          /\ regionIdx' = 1
          /\ UNCHANGED <<compIdx, bitmap>>
     ELSE /\ pc' = "decompose"
          /\ compIdx' = 1
          /\ bitmap' = SeqToSet(components[1])
          /\ UNCHANGED regionIdx
  /\ componentRegions' = <<>>
  /\ UNCHANGED <<otherVars, config, colorIndex, visited, components, regions,
                 localVertices, localTriangles, vertexMap, objectsData, xml>>

\* decomposeComponentIntoRectangles: one iteration that finds a bestRect
ClaimRectangle ==
  /\ pc = "decompose"
  /\ BestRect(bitmap).area > 0
  /\ LET bestRect == BestRect(bitmap)
     IN  /\ bitmap' = bitmap \ RectCells(bestRect)
         /\ componentRegions' = Append(componentRegions, Region(bestRect))
  /\ UNCHANGED <<otherVars, config, pc, colorIndex, visited, components, compIdx,
                 regions, regionIdx, localVertices, localTriangles,
                 vertexMap, objectsData, xml>>

\* decomposeComponentIntoRectangles: no bestRect, return to the caller,
\* which pushes the regions and goes on with the next component
DecomposeReturn ==
  /\ pc = "decompose"
  /\ BestRect(bitmap).area = 0
  /\ regions' = regions \o componentRegions
  /\ IF compIdx < Len(components)
     THEN /\ compIdx' = compIdx + 1
          /\ bitmap' = SeqToSet(components[compIdx + 1])
          /\ componentRegions' = <<>>
          /\ UNCHANGED <<pc, regionIdx>>
     ELSE /\ pc' = "extrude"
          /\ regionIdx' = 1
          /\ UNCHANGED <<compIdx, bitmap, componentRegions>>
  /\ UNCHANGED <<otherVars, config, colorIndex, visited, components, localVertices,
                 localTriangles, vertexMap, objectsData, xml>>

\* the box of one merged region, as generate3DModel places it
RegionBox(region, w, z, front) ==
  BoxCorners(PosX(region.x1, w), PosY(region.y1, w), z.baseZ,
             PosX(region.x2, w), PosY(region.y2, w), z.topZ, front)

\* for (const region of mergedRegions): one box through the vertex map
AddVoxel ==
  /\ pc = "extrude"
  /\ regionIdx <= Len(regions)
  /\ ~shouldSmooth
  /\ LET region == regions[regionIdx]
         z == LayerZ(colorIndex, colorHeights)
         r == addVoxelManifold(localVertices, vertexMap, localTriangles,
                PosX(region.x1, width), PosY(region.y1, width), z.baseZ,
                PosX(region.x2, width), PosY(region.y2, width), z.topZ,
                colorIndex, showOnFront)
     IN  /\ localVertices' = r.vertices
         /\ vertexMap' = r.vmap
         /\ localTriangles' = r.triangles
  /\ regionIdx' = regionIdx + 1
  /\ UNCHANGED <<otherVars, config, pc, colorIndex, visited, components, compIdx,
                 bitmap, componentRegions, regions, objectsData, xml>>

\* for (const region of mergedRegions), shouldSmooth: one chamfered
\* prism through the vertex map
AddSmoothedVoxel ==
  /\ pc = "extrude"
  /\ regionIdx <= Len(regions)
  /\ shouldSmooth
  /\ LET region == regions[regionIdx]
         z == LayerZ(colorIndex, colorHeights)
         r == addSmoothedVoxelManifold(localVertices, vertexMap,
                localTriangles,
                PosX(region.x1, width), PosY(region.y1, width), z.baseZ,
                PosX(region.x2, width), PosY(region.y2, width), z.topZ,
                colorIndex, showOnFront)
     IN  /\ localVertices' = r.vertices
         /\ vertexMap' = r.vmap
         /\ localTriangles' = r.triangles
  /\ regionIdx' = regionIdx + 1
  /\ UNCHANGED <<otherVars, config, pc, colorIndex, visited, components, compIdx,
                 bitmap, componentRegions, regions, objectsData, xml>>

\* end of the colour's iteration: keep the object only if it has geometry
EndColor ==
  /\ pc = "extrude"
  /\ regionIdx > Len(regions)
  /\ objectsData' = IF HasGeometry(localVertices)
                    THEN Append(objectsData,
                                [colorIndex |-> colorIndex,
                                 vertices |-> localVertices,
                                 triangles |-> localTriangles])
                    ELSE objectsData
  /\ colorIndex' = colorIndex + 1
  /\ pc' = "loopColor"
  /\ UNCHANGED <<otherVars, config, visited, components, compIdx, bitmap,
                 componentRegions, regions, regionIdx, localVertices,
                 localTriangles, vertexMap, xml>>

\* after the loop: the XML document
Serialize ==
  /\ pc = "loopColor"
  /\ colorIndex = NumColors
  /\ xml' = ModelXml(objectsData)
  /\ pc' = "done"
  /\ UNCHANGED <<otherVars, config, colorIndex, visited, components, compIdx, bitmap,
                 componentRegions, regions, regionIdx, localVertices,
                 localTriangles, vertexMap, objectsData>>

Next ==
  \/ BeginColor
  \/ FloodFillComponent
  \/ StartDecompose
  \/ ClaimRectangle
  \/ DecomposeReturn
  \/ AddVoxel
  \/ EndColor
  \/ Serialize

Spec == Init /\ [][Next]_vars

\* ------------------------------- generate3DModel, layer height 0 allowed
\* the height inputs pass parseFloat of the typed text on unclamped, so a
\* layer height of 0 reaches generate3DModel
AnyHeightInit ==
  /\ colorMap \in [Cells -> {Transparent} \cup ColorIndices]
  /\ width \in Widths
  /\ colorHeights \in [ColorIndices -> {0} \cup Heights]
  /\ showOnFront \in BOOLEAN
  /\ useSmoothing = FALSE
  /\ imageScale = 1
  /\ pc = "loopColor"
  /\ GenerateFresh
  /\ ExportIdle
  /\ ContourIdle
  /\ CliIdle

AnyHeightSpec == AnyHeightInit /\ [][Next]_vars

\* ---------------------------------------- generate3DModel, large images
\* the same grids drawn at SmoothScale pixels per cell: a cell is a block
\* of SmoothScale x SmoothScale pixels, the merged regions are the grid's
\* regions times SmoothScale, and region.x / imgWidth is unchanged
SmoothInit ==
  /\ colorMap \in [Cells -> {Transparent} \cup ColorIndices]
  /\ width \in Widths
  /\ colorHeights \in [ColorIndices -> Heights]
  /\ showOnFront \in BOOLEAN
  /\ useSmoothing \in BOOLEAN
  /\ imageScale = SmoothScale
  /\ pc = "loopColor"
  /\ GenerateFresh
  /\ ExportIdle
  /\ ContourIdle
  /\ CliIdle

SmoothNext == Next \/ AddSmoothedVoxel

SmoothSpec == SmoothInit /\ [][SmoothNext]_vars

\* ------------------------------------------------------ export3MF, stepwise
LayerSeqs == UNION {[1 .. n -> ColorLayerValues] : n \in 0 .. MaxLayers}

ExportInit ==
  /\ GenerateIdle
  /\ ContourIdle
  /\ CliIdle
  /\ colorLayers \in LayerSeqs
  /\ layerIdx = 0
  /\ modelXml = NoXml
  /\ pc = "export3MF"

\* the header and the first forEach: one <base> per layer
WriteBaseMaterials ==
  /\ pc = "export3MF"
  /\ modelXml' = [unit |-> "millimeter",
                  basematerials |-> [id |-> 1, bases |-> ExportBases(colorLayers)],
                  objects |-> <<>>,
                  build |-> <<>>]
  /\ layerIdx' = 0
  /\ pc' = "exportMeshes"
  /\ UNCHANGED <<generateVars, contourVars, cliVars, colorLayers>>

\* variant: the layer's mesh is released once it has been written
WriteObjectReleasing ==
  /\ pc = "exportMeshes"
  /\ layerIdx < Len(colorLayers)
  /\ LET layer == colorLayers[layerIdx + 1]
     IN  modelXml' = IF layer.mesh = NoMesh
                     THEN modelXml
                     ELSE [modelXml EXCEPT !.objects =
                             Append(@, ExportObject(layer, layerIdx))]
  /\ colorLayers' = [colorLayers EXCEPT ![layerIdx + 1].mesh = NoMesh]
  /\ layerIdx' = layerIdx + 1
  /\ UNCHANGED <<generateVars, contourVars, cliVars, pc>>

\* one iteration of the second forEach: if (!layer.mesh) return
WriteObject ==
  /\ pc = "exportMeshes"
  /\ layerIdx < Len(colorLayers)
  /\ LET layer == colorLayers[layerIdx + 1]
     IN  modelXml' = IF layer.mesh = NoMesh
                     THEN modelXml
                     ELSE [modelXml EXCEPT !.objects =
                             Append(@, ExportObject(layer, layerIdx))]
  /\ layerIdx' = layerIdx + 1
  /\ UNCHANGED <<generateVars, contourVars, cliVars, colorLayers, pc>>

\* the third forEach: the build items, and the document is complete
WriteBuildItems ==
  /\ pc = "exportMeshes"
  /\ layerIdx = Len(colorLayers)
  /\ modelXml' = [modelXml EXCEPT !.build = ExportItems(colorLayers, 1)]
  /\ pc' = "exported"
  /\ UNCHANGED <<generateVars, contourVars, cliVars, colorLayers, layerIdx>>

ExportNext ==
  \/ WriteBaseMaterials
  \/ WriteObject
  \/ WriteBuildItems

ExportSpec == ExportInit /\ [][ExportNext]_vars

\* ------------------------------------- generateMeshFromContours, stepwise
ContourInit ==
  /\ GenerateIdle
  /\ ExportIdle
  /\ CliIdle
  /\ mask \in [MaskCells -> {0, 1}]
  /\ thickness \in Thicknesses
  /\ voxelSize \in VoxelSizes
  /\ maskVisited = {}
  /\ contours = <<>>
  /\ contourIdx = 0
  /\ allVertices = <<>>
  /\ allIndices = <<>>
  /\ remainingAtReturn = <<>>
  /\ warnings = 0
  /\ pc = "extractContours"

\* filled pixels the scan of extractContours has not visited yet
UnvisitedPixels == {p \in MaskCells : mask[p] = 1 /\ p \notin maskVisited}

\* extractContours: the scan reaches an unvisited filled pixel
TraceComponent ==
  /\ pc = "extractContours"
  /\ UnvisitedPixels # {}
  /\ LET start == CHOOSE p \in UnvisitedPixels :
                    \A q \in UnvisitedPixels :
                      p[2] * MaskW + p[1] <= q[2] * MaskW + q[1]
         r == floodFill(mask, <<start>>, maskVisited \cup {start}, <<>>)
         contour == traceMarchingSquaresContour(mask, r.pixels)
     IN  /\ maskVisited' = r.visited
         /\ contours' = IF Len(r.pixels) > 0 /\ Len(contour) >= 3
                        THEN Append(contours, contour)
                        ELSE contours
  /\ UNCHANGED <<generateVars, exportVars, cliVars, pc, mask, thickness, voxelSize,
                 contourIdx, allVertices, allIndices, remainingAtReturn,
                 warnings>>

\* extractContours returns; without contours the empty mesh is returned
ExtractReturn ==
  /\ pc = "extractContours"
  /\ UnvisitedPixels = {}
  /\ pc' = IF Len(contours) = 0 THEN "meshReturned" ELSE "extrudeContours"
  /\ UNCHANGED <<generateVars, exportVars, cliVars, contourVars>>

\* one iteration of for (const contour of contours)
ExtrudeContour ==
  /\ pc = "extrudeContours"
  /\ contourIdx < Len(contours)
  /\ LET r == ExtrudeContourMesh(contours[contourIdx + 1],
                                 Len(allVertices) \div 3, thickness, voxelSize)
     IN  /\ allVertices' = allVertices \o r.vertices
         /\ allIndices' = allIndices \o r.indices
         /\ warnings' = warnings + (IF r.warned THEN 1 ELSE 0)
  /\ contourIdx' = contourIdx + 1
  /\ UNCHANGED <<generateVars, exportVars, cliVars, pc, mask, thickness, voxelSize,
                 maskVisited, contours, remainingAtReturn>>

\* the mesh is returned
MeshReturn ==
  /\ pc = "extrudeContours"
  /\ contourIdx = Len(contours)
  /\ pc' = "meshReturned"
  /\ UNCHANGED <<generateVars, exportVars, cliVars, contourVars>>

ContourNext ==
  \/ TraceComponent
  \/ ExtractReturn
  \/ ExtrudeContour
  \/ MeshReturn

ContourSpec == ContourInit /\ [][ContourNext]_vars

\* ------------------------------------- triangulatePolygon on its own
\* polygons of 2 .. MaxPolygon distinct points with coordinates 0 .. PolyGrid
Polygons ==
  LET pts == (0 .. PolyGrid) \X (0 .. PolyGrid)
  IN  UNION {{f \in [1 .. n -> pts] :
                \A i, j \in 1 .. n : i # j => f[i] # f[j]} :
             n \in 2 .. MaxPolygon}

TriangulateInit ==
  /\ GenerateIdle
  /\ ExportIdle
  /\ CliIdle
  /\ mask = [p \in MaskCells |-> 0]
  /\ thickness = 2
  /\ voxelSize = 1
  /\ maskVisited = {}
  /\ contours \in {<<points>> : points \in Polygons}
  /\ contourIdx = 0
  /\ allVertices = <<>>
  /\ allIndices = <<>>
  /\ remainingAtReturn = <<>>
  /\ warnings = 0
  /\ pc = "triangulatePolygon"

\* one call of triangulatePolygon: the indices it returns, the vertices
\* left in remaining when it returns, and its console.warn
Triangulate ==
  /\ pc = "triangulatePolygon"
  /\ LET r == triangulatePolygon(contours[1])
     IN  /\ allIndices' = r.indices
         /\ remainingAtReturn' = r.remaining
         /\ warnings' = warnings + (IF r.warned THEN 1 ELSE 0)
  /\ pc' = "triangulated"
  /\ UNCHANGED <<generateVars, exportVars, cliVars, mask, thickness, voxelSize,
                 maskVisited, contours, contourIdx, allVertices>>

TriangulateSpec == TriangulateInit /\ [][Triangulate]_vars

\* ------------------------------------- triangulatePolygon, stepwise
\* the early returns for n < 3, n = 3 and n = 4, or the set-up of the ear
\* clipping: indices = [], remaining = [0 .. n - 1]
EnterTriangulate ==
  /\ pc = "triangulatePolygon"
  /\ LET n == Len(contours[1])
     IN  /\ allIndices' = IF n = 3 THEN <<0, 1, 2>>
                          ELSE IF n = 4 THEN <<0, 1, 2, 0, 2, 3>>
                          ELSE <<>>
         /\ remainingAtReturn' = IF n > 4 THEN [i \in 1 .. n |-> i - 1]
                                 ELSE <<>>
         /\ pc' = IF n > 4 THEN "whileRemaining" ELSE "triangulated"
  /\ UNCHANGED <<generateVars, exportVars, cliVars, mask, thickness, voxelSize,
                 maskVisited, contours, contourIdx, allVertices, warnings>>

\* positions i (from 1) of remaining that isEar accepts
EarsOf(points, remaining) ==
  LET n == Len(remaining)
  IN  {i \in 1 .. n :
         isEar(points, remaining, remaining[((i - 2 + n) % n) + 1],
               remaining[i], remaining[(i % n) + 1])}

\* one pass of the while loop that finds an ear: the first one is pushed
\* and spliced out of remaining
ClipEar ==
  /\ pc = "whileRemaining"
  /\ Len(remainingAtReturn) > 3
  /\ EarsOf(contours[1], remainingAtReturn) # {}
  /\ LET n == Len(remainingAtReturn)
         ears == EarsOf(contours[1], remainingAtReturn)
         i == CHOOSE e \in ears : \A f \in ears : e <= f
     IN  /\ allIndices' = allIndices \o
                            <<remainingAtReturn[((i - 2 + n) % n) + 1],
                              remainingAtReturn[i],
                              remainingAtReturn[(i % n) + 1]>>
         /\ remainingAtReturn' = SubSeq(remainingAtReturn, 1, i - 1)
                                   \o SubSeq(remainingAtReturn, i + 1, n)
  /\ UNCHANGED <<generateVars, exportVars, cliVars, pc, mask, thickness,
                 voxelSize, maskVisited, contours, contourIdx, allVertices,
                 warnings>>

\* one pass of the while loop that finds no ear: the warning, the fan,
\* the break, and the return (more than 3 vertices are left)
FanFallback ==
  /\ pc = "whileRemaining"
  /\ Len(remainingAtReturn) > 3
  /\ EarsOf(contours[1], remainingAtReturn) = {}
  /\ warnings' = warnings + 1
  /\ allIndices' = allIndices \o FanTriangles(remainingAtReturn, 2)
  /\ pc' = "triangulated"
  /\ UNCHANGED <<generateVars, exportVars, cliVars, mask, thickness, voxelSize,
                 maskVisited, contours, contourIdx, allVertices,
                 remainingAtReturn>>

\* variant: the three vertices left after the loop are not emitted
LastTriangleDropped ==
  /\ pc = "whileRemaining"
  /\ Len(remainingAtReturn) <= 3
  /\ pc' = "triangulated"
  /\ UNCHANGED <<generateVars, exportVars, cliVars, mask, thickness, voxelSize,
                 maskVisited, contours, contourIdx, allVertices, allIndices,
                 remainingAtReturn, warnings>>

\* the loop ends with remaining.length <= 3: the last triangle and the
\* return
LastTriangle ==
  /\ pc = "whileRemaining"
  /\ Len(remainingAtReturn) <= 3
  /\ allIndices' = IF Len(remainingAtReturn) = 3
                   THEN allIndices \o remainingAtReturn
                   ELSE allIndices
  /\ pc' = "triangulated"
  /\ UNCHANGED <<generateVars, exportVars, cliVars, mask, thickness, voxelSize,
                 maskVisited, contours, contourIdx, allVertices,
                 remainingAtReturn, warnings>>

EarClipNext ==
  \/ EnterTriangulate
  \/ ClipEar
  \/ FanFallback
  \/ LastTriangle

\* the call is synchronous: it keeps running until it returns
EarClipSpec == TriangulateInit /\ [][EarClipNext]_vars /\ WF_vars(EarClipNext)

\* ------------------------------------- marchingCubes (marchingCubes.ts)
\* The volume is the one createVoxelVolume builds from a colour mask, so
\* every sample is 0 or 1 and every crossing point is the midpoint of its
\* lattice edge; vertex coordinates are kept in half millimetres to stay
\* whole numbers.
Bit(n, i) == (n \div (2 ^ i)) % 2

\* createVoxelVolume: the mask repeated over ceil(layerThickness /
\* voxelSize) slices, data[x + y * width + z * width * height] from 0
createVoxelVolume(cmap, ci, layerThickness, vs) ==
  LET depth == (layerThickness + vs - 1) \div vs
  IN  [width |-> MaskW, height |-> MaskH, depth |-> depth,
       data |-> [i \in 1 .. MaskW * MaskH * depth |->
                   LET x == (i - 1) % MaskW
                       y == ((i - 1) \div MaskW) % MaskH
                   IN  IF cmap[<<x, y>>] = ci THEN 1 ELSE 0]]

getValue(volume, x, y, z) ==
  IF x < 0 \/ x >= volume.width \/ y < 0 \/ y >= volume.height
       \/ z < 0 \/ z >= volume.depth
  THEN 0
  ELSE volume.data[x + y * volume.width
                     + z * volume.width * volume.height + 1]

\* the lattice offsets of the corners 0 .. 7 of a cube, in the order of
\* the corners array
CubeCorners ==
  <<<<0, 0, 0>>, <<1, 0, 0>>, <<1, 0, 1>>, <<0, 0, 1>>,
    <<0, 1, 0>>, <<1, 1, 0>>, <<1, 1, 1>>, <<0, 1, 1>>>>

\* the two corners (from 0) each of the edges 0 .. 11 is interpolated
\* between
EdgeCorners ==
  <<<<0, 1>>, <<1, 2>>, <<2, 3>>, <<3, 0>>, <<4, 5>>, <<5, 6>>,
    <<6, 7>>, <<7, 4>>, <<0, 4>>, <<1, 5>>, <<2, 6>>, <<3, 7>>>>

\* cubeIndex |= 1 << i for every corner below the iso-value 0.5
cubeIndexOf(corners) ==
  LET RECURSIVE Sum(_)
      Sum(i) == IF i > 8 THEN 0
                ELSE (IF corners[i] < 1 THEN 2 ^ (i - 1) ELSE 0) + Sum(i + 1)
  IN  Sum(1)

\* the edge table of marching cubes: bit e is set when the two corners of
\* edge e lie on different sides of the iso-value
edgeTable(cubeIndex) ==
  LET RECURSIVE Sum(_)
      Sum(e) ==
        IF e > 11 THEN 0
        ELSE (IF Bit(cubeIndex, EdgeCorners[e + 1][1])
                   # Bit(cubeIndex, EdgeCorners[e + 1][2])
              THEN 2 ^ e ELSE 0) + Sum(e + 1)
  IN  Sum(0)

\* the triangle table of marching cubes for the cube indices of a volume
\* that is constant along z: the crossings of the lower square (edges 0,
\* 9, 4, 8) are joined in pairs, and each pair with the crossings above
\* it (edges 2, 10, 6, 11) makes a wall of two triangles; -1 ends the row
triTable(cubeIndex) ==
  LET Crossed(e) == Bit(edgeTable(cubeIndex), e) = 1
      active == SelectSeq(<<0, 9, 4, 8>>, Crossed)
      Up(e) == CASE e = 0 -> 2 [] e = 9 -> 10 [] e = 4 -> 6 [] OTHER -> 11
      Wall(a, b) == <<a, b, Up(b), a, Up(b), Up(a)>>
  IN  IF Len(active) = 2 THEN Wall(active[1], active[2]) \o <<-1>>
      ELSE IF Len(active) = 4 THEN Wall(0, 8) \o Wall(9, 4) \o <<-1>>
      ELSE <<-1>>

\* interpolateVertex at iso-value 0.5 for samples 0 and 1, in half
\* lattice units: a sample is never within 0.00001 of the iso-value, equal
\* samples give v1, and otherwise t = 0.5
interpolateVertex(v1, v2, val1, val2) ==
  IF val1 = val2
  THEN <<2 * v1[1], 2 * v1[2], 2 * v1[3]>>
  ELSE <<v1[1] + v2[1], v1[2] + v2[2], v1[3] + v2[3]>>

\* processCube: the vertices array after the cube at (x, y, z); three new
\* entries of three coordinates are pushed for every triangle of the row
processCube(volume, x, y, z, vs, vertices) ==
  LET at(c) == <<x + CubeCorners[c + 1][1], y + CubeCorners[c + 1][2],
                 z + CubeCorners[c + 1][3]>>
      corners == [c \in 1 .. 8 |->
                    getValue(volume, at(c - 1)[1], at(c - 1)[2], at(c - 1)[3])]
      cubeIndex == cubeIndexOf(corners)
      edgeVertices(e) ==
        interpolateVertex(at(EdgeCorners[e + 1][1]), at(EdgeCorners[e + 1][2]),
                          corners[EdgeCorners[e + 1][1] + 1],
                          corners[EdgeCorners[e + 1][2] + 1])
      row == triTable(cubeIndex)
      RECURSIVE Push(_)
      Push(i) ==
        IF row[i] = -1 THEN <<>>
        ELSE LET v == edgeVertices(row[i])
             IN  <<v[1] * vs, v[2] * vs, v[3] * vs>> \o Push(i + 1)
  IN  IF edgeTable(cubeIndex) = 0 THEN vertices ELSE vertices \o Push(1)

\* for (let i = 0; i < vertices.length / 3; i++) indices.push(i)
SequentialIndices(vertices) == [i \in 1 .. Len(vertices) \div 3 |-> i - 1]

\* marchingCubes: every cube in z, y, x order, then the indices
marchingCubes(volume, vs) ==
  LET w == volume.width - 1
      h == volume.height - 1
      d == volume.depth - 1
      RECURSIVE Cubes(_, _)
      Cubes(k, vertices) ==
        IF w <= 0 \/ h <= 0 \/ d <= 0 \/ k >= w * h * d THEN vertices
        ELSE Cubes(k + 1,
                   processCube(volume, k % w, (k \div w) % h, k \div (w * h),
                               vs, vertices))
      vertices == Cubes(0, <<>>)
  IN  [vertices |-> vertices, indices |-> SequentialIndices(vertices)]

CubesInit ==
  /\ GenerateIdle
  /\ ExportIdle
  /\ CliIdle
  /\ mask \in [MaskCells -> {0, 1}]
  /\ thickness \in Thicknesses
  /\ voxelSize \in VoxelSizes
  /\ maskVisited = {}
  /\ contours = <<>>
  /\ contourIdx = 0
  /\ allVertices = <<>>
  /\ allIndices = <<>>
  /\ remainingAtReturn = <<>>
  /\ warnings = 0
  /\ pc = "marchingCubes"

\* one call of marchingCubes on the volume of the mask; the vertexMap it
\* declares is never read or written
MarchingCubes ==
  /\ pc = "marchingCubes"
  /\ LET r == marchingCubes(createVoxelVolume(mask, 1, thickness, voxelSize),
                            voxelSize)
     IN  /\ allVertices' = r.vertices
         /\ allIndices' = r.indices
  /\ pc' = "cubesReturned"
  /\ UNCHANGED <<generateVars, exportVars, cliVars, mask, thickness, voxelSize,
                 maskVisited, contours, contourIdx, remainingAtReturn,
                 warnings>>

CubesSpec == CubesInit /\ [][MarchingCubes]_vars

\* ------------------------------------------- the command line tool
\* a fresh directory: the image at most, no config file, no 3MF
CliInit ==
  /\ GenerateIdle
  /\ ExportIdle
  /\ ContourIdle
  /\ imageExists \in BOOLEAN
  /\ openscadInstalled \in BOOLEAN
  /\ configFile = Undefined
  /\ outputFile = Undefined
  /\ loadedConfig = Undefined
  /\ coloredObjects = <<>>
  /\ scadCalls = 0
  /\ colorPos = 0
  /\ exitCode = -1
  /\ errorMessage = ""
  /\ runs = 1
  /\ filesAtStart = [config |-> Undefined, output |-> Undefined]
  /\ pc = "main"

\* console.error and process.exit(1), from main's own checks or its catch
Fail(message) ==
  /\ errorMessage' = message
  /\ exitCode' = 1
  /\ pc' = "exited"

\* variant: the default config is written on every run
MainRewritingConfig ==
  /\ pc = "main"
  /\ IF ~imageExists
     THEN /\ Fail("Image file not found")
          /\ UNCHANGED configFile
     ELSE /\ configFile' = generateDefaultConfig(ModalColors)
          /\ IF configFile = Undefined
             THEN /\ exitCode' = 0
                  /\ pc' = "exited"
                  /\ UNCHANGED errorMessage
             ELSE /\ pc' = "processImageTo3MF"
                  /\ UNCHANGED <<exitCode, errorMessage>>
  /\ UNCHANGED <<generateVars, exportVars, contourVars, imageExists,
                 openscadInstalled, outputFile, loadedConfig, coloredObjects,
                 scadCalls, colorPos, runs, filesAtStart>>

\* main: the image check, then generateConfigFromImage when there is no
\* config file, processImageTo3MF when there is one
Main ==
  /\ pc = "main"
  /\ IF ~imageExists
     THEN /\ Fail("Image file not found")
          /\ UNCHANGED configFile
     ELSE IF configFile = Undefined
     THEN /\ configFile' = generateDefaultConfig(ModalColors)
          /\ exitCode' = 0
          /\ pc' = "exited"
          /\ UNCHANGED errorMessage
     ELSE /\ pc' = "processImageTo3MF"
          /\ UNCHANGED <<configFile, exitCode, errorMessage>>
  /\ UNCHANGED <<generateVars, exportVars, contourVars, imageExists,
                 openscadInstalled, outputFile, loadedConfig, coloredObjects,
                 scadCalls, colorPos, runs, filesAtStart>>

\* variant: the two modes are not checked against each other
LoadConfigUnchecked ==
  /\ pc = "processImageTo3MF"
  /\ IF ~openscadInstalled
     THEN /\ Fail("OpenSCAD is not installed or not in PATH")
          /\ UNCHANGED loadedConfig
     ELSE IF configFile.colors = Undefined
     THEN /\ Fail("Invalid config: missing or invalid colors field")
          /\ UNCHANGED loadedConfig
     ELSE /\ loadedConfig' = configFile
          /\ pc' = "backplane"
          /\ UNCHANGED <<exitCode, errorMessage>>
  /\ UNCHANGED <<generateVars, exportVars, contourVars, imageExists,
                 openscadInstalled, configFile, outputFile, coloredObjects,
                 scadCalls, colorPos, runs, filesAtStart>>

\* processImageTo3MF up to the modality check: checkOpenSCADInstalled,
\* readConfig and its validation, the two has...Mode flags
LoadConfig ==
  /\ pc = "processImageTo3MF"
  /\ IF ~openscadInstalled
     THEN /\ Fail("OpenSCAD is not installed or not in PATH")
          /\ UNCHANGED loadedConfig
     ELSE IF configFile.colors = Undefined
     THEN /\ Fail("Invalid config: missing or invalid colors field")
          /\ UNCHANGED loadedConfig
     ELSE /\ loadedConfig' = configFile
          /\ IF configFile.backing # Undefined /\ configFile.sandwich # Undefined
             THEN Fail("Cannot specify both backing and sandwich modes")
             ELSE /\ pc' = "backplane"
                  /\ UNCHANGED <<exitCode, errorMessage>>
  /\ UNCHANGED <<generateVars, exportVars, contourVars, imageExists,
                 openscadInstalled, configFile, outputFile, coloredObjects,
                 scadCalls, colorPos, runs, filesAtStart>>

\* the backing layer or the sandwich layer, when the mode asks for one:
\* one createMeshWithOpenSCAD call, which may throw, and one push
BackplaneLayer ==
  /\ pc = "backplane"
  /\ IF loadedConfig.backing = Undefined /\ loadedConfig.sandwich = Undefined
     THEN /\ pc' = "colors"
          /\ UNCHANGED <<coloredObjects, scadCalls, exitCode, errorMessage>>
     ELSE LET plane == IF loadedConfig.backing # Undefined
                       THEN loadedConfig.backing ELSE loadedConfig.sandwich
          IN  /\ scadCalls' = scadCalls + 1
              /\ \/ /\ Fail("OpenSCAD execution failed")
                    /\ UNCHANGED coloredObjects
                 \/ /\ \E s \in Footprints :
                         coloredObjects' =
                           Append(coloredObjects,
                                  [mesh |-> OpenSCADMesh(plane.thickness, s),
                                   color |-> "#000000"])
                    /\ pc' = "colors"
                    /\ UNCHANGED <<exitCode, errorMessage>>
  /\ UNCHANGED <<generateVars, exportVars, contourVars, imageExists,
                 openscadInstalled, configFile, outputFile, loadedConfig,
                 colorPos, runs, filesAtStart>>

\* one iteration of for (const [hexColor, colorConfig] of
\* Object.entries(config.colors)): mesh, z offset, push
ColorLayer ==
  /\ pc = "colors"
  /\ colorPos < Len(loadedConfig.colors.entries)
  /\ scadCalls' = scadCalls + 1
  /\ LET colorConfig == loadedConfig.colors.entries[colorPos + 1]
     IN  \/ /\ Fail("OpenSCAD execution failed")
            /\ UNCHANGED <<coloredObjects, colorPos>>
         \/ /\ \E s \in Footprints :
                 coloredObjects' =
                   Append(coloredObjects,
                          [mesh |-> OffsetMesh(loadedConfig,
                                      OpenSCADMesh(colorHeight(loadedConfig,
                                                               colorConfig), s)),
                           color |-> colorConfig.hex])
            /\ colorPos' = colorPos + 1
            /\ UNCHANGED <<pc, exitCode, errorMessage>>
  /\ UNCHANGED <<generateVars, exportVars, contourVars, imageExists,
                 openscadInstalled, configFile, outputFile, loadedConfig, runs,
                 filesAtStart>>

\* after the loop: createCombined3MF writes the output file
Combine ==
  /\ pc = "colors"
  /\ colorPos = Len(loadedConfig.colors.entries)
  /\ outputFile' = [objects |-> coloredObjects]
  /\ exitCode' = 0
  /\ pc' = "exited"
  /\ UNCHANGED <<generateVars, exportVars, contourVars, imageExists,
                 openscadInstalled, configFile, loadedConfig, coloredObjects,
                 scadCalls, colorPos, errorMessage, runs, filesAtStart>>

\* the user runs the tool again, after editing the config file if there
\* is one and with OpenSCAD installed or not
RunAgain ==
  /\ pc = "exited"
  /\ runs < MaxRuns
  /\ runs' = runs + 1
  /\ configFile' \in IF configFile = Undefined THEN {Undefined}
                      ELSE {configFile} \cup EditedConfigs
  /\ openscadInstalled' \in BOOLEAN
  /\ filesAtStart' = [config |-> configFile', output |-> outputFile]
  /\ loadedConfig' = Undefined
  /\ coloredObjects' = <<>>
  /\ scadCalls' = 0
  /\ colorPos' = 0
  /\ exitCode' = -1
  /\ errorMessage' = ""
  /\ pc' = "main"
  /\ UNCHANGED <<generateVars, exportVars, contourVars, imageExists,
                 outputFile>>

CliNext ==
  \/ Main
  \/ LoadConfig
  \/ BackplaneLayer
  \/ ColorLayer
  \/ Combine
  \/ RunAgain

CliSpec == CliInit /\ [][CliNext]_vars

\* ------------------------------ both mesh backends, each from its own entry
BackendsInit == Init \/ ContourInit

BackendsNext == Next \/ ContourNext

BackendsSpec == BackendsInit /\ [][BackendsNext]_vars

\* ============================================================== properties
\* helpers of the properties (not part of the program)
RectPoints(r) == (r.x1 .. r.x2 - 1) \X (r.y1 .. r.y2 - 1)

Adjacent(p, q) == Abs(p[1] - q[1]) + Abs(p[2] - q[2]) = 1

RECURSIVE Closure(_, _)
Closure(R, S) ==
  LET R2 == R \cup {q \in S : \E p \in R : Adjacent(p, q)}
  IN  IF R2 = R THEN R ELSE Closure(R2, S)

Connected(S) == S # {} /\ \E p \in S : Closure({p}, S) = S

CellsOf(c) == {p \in Cells : colorMap[p] = c}

TriV(t, s) == IF s = 1 THEN t.v1 ELSE IF s = 2 THEN t.v2 ELSE t.v3

\* the undirected edge of slot s of a triangle (s -> s+1 cyclically)
EdgeOf(t, s) == {TriV(t, s), TriV(t, (s % 3) + 1)}

Incidences(triangles, e) ==
  Cardinality({ks \in (1 .. Len(triangles)) \X (1 .. 3) :
                 EdgeOf(triangles[ks[1]], ks[2]) = e})

Manifold(triangles) ==
  \A k \in 1 .. Len(triangles) : \A s \in 1 .. 3 :
    Incidences(triangles, EdgeOf(triangles[k], s)) = 2

\* boxes of the current colour that have been extruded so far
Extruded == IF pc = "extrude" THEN 1 .. (regionIdx - 1) ELSE {}

BoxSlots == (1 .. Len(BoxFaces)) \X (1 .. 3)

\* the vertex index the k-th box uses for its corner j (0..7), read back
\* from the triangle list
CornerIndex(k, j) ==
  LET fs == CHOOSE x \in BoxSlots : BoxFaces[x[1]][x[2]] = j
  IN  TriV(localTriangles[Len(BoxFaces) * (k - 1) + fs[1]], fs[2])

CornerKey(k, j) ==
  LET c == RegionBox(regions[k], width, LayerZ(colorIndex, colorHeights),
                     showOnFront)[j + 1]
  IN  VertexKey(c[1], c[2], c[3])

Corners == 0 .. 7

ZSet(vertices) == {vertices[i].z : i \in 1 .. Len(vertices)}

MinOf(S) == CHOOSE m \in S : \A n \in S : m <= n

MaxOf(S) == CHOOSE m \in S : \A n \in S : m >= n

\* C1: when the decomposition of a component returns, its rectangles are
\* pairwise disjoint and the union of their cells is exactly the component
C1_BoxMergeTiling ==
  (pc = "decompose" /\ BestRect(bitmap).area = 0) =>
    /\ \A i, j \in 1 .. Len(componentRegions) :
         i # j => RectPoints(componentRegions[i])
                    \cap RectPoints(componentRegions[j]) = {}
    /\ UNION {RectPoints(componentRegions[i]) :
                i \in 1 .. Len(componentRegions)}
         = SeqToSet(components[compIdx])

\* a component that needed more than one rectangle has been decomposed
C1_Witness ==
  /\ pc = "decompose"
  /\ BestRect(bitmap).area = 0
  /\ Len(componentRegions) >= 2

\* C2: in every per-colour mesh every undirected edge occurs in exactly two
\* triangle incidences
C2_ManifoldMeshes ==
  \A i \in 1 .. Len(objectsData) : Manifold(objectsData[i].triangles)

\* C3: corners with the same 6-decimal key resolve to the same vertex index
\* and no two vertices of the colour's list have the same key
C3_CoincidentCornersShareVertex ==
  /\ \A i, j \in 1 .. Len(localVertices) :
       i # j => KeyOf(localVertices[i]) # KeyOf(localVertices[j])
  /\ \A k1, k2 \in Extruded : \A j1, j2 \in Corners :
       CornerKey(k1, j1) = CornerKey(k2, j2)
         => CornerIndex(k1, j1) = CornerIndex(k2, j2)

\* two different rectangles of one colour have a corner in common
C3_Witness ==
  \E k1, k2 \in Extruded : \E j1, j2 \in Corners :
    /\ k1 # k2
    /\ CornerKey(k1, j1) = CornerKey(k2, j2)
    /\ CornerIndex(k1, j1) = CornerIndex(k2, j2)

ExtractionDone ==
  \/ pc = "floodFill" /\ Unvisited(colorMap, colorIndex, visited) = {}
  \/ pc \in {"decompose", "extrude"}

ComponentSet(i) == SeqToSet(components[i])

\* C4: the extracted sets are exactly the 4-connected components of the
\* cells of the colour: connected, maximal, disjoint, covering
C4_RegionsAreComponents ==
  ExtractionDone =>
    /\ \A i \in 1 .. Len(components) :
         /\ Connected(ComponentSet(i))
         /\ Cardinality(ComponentSet(i)) = Len(components[i])
    /\ \A i, j \in 1 .. Len(components) :
         i # j => /\ ComponentSet(i) \cap ComponentSet(j) = {}
                  /\ \A p \in ComponentSet(i) : \A q \in ComponentSet(j) :
                       ~Adjacent(p, q)
    /\ UNION {ComponentSet(i) : i \in 1 .. Len(components)}
         = CellsOf(colorIndex)

\* a colour with two components, one of them of three cells or more
C4_Witness ==
  /\ ExtractionDone
  /\ Len(components) >= 2
  /\ \E i \in 1 .. Len(components) : Len(components[i]) >= 3

AllVertices ==
  UNION {SeqToSet(objectsData[i].vertices) : i \in 1 .. Len(objectsData)}

\* tolerance of the centring test, 0.1 mm
CenterTolerance == UnitsPerMm \div 10

Centered(S, center) ==
  Abs((MaxOf(S) - center) - (center - MinOf(S))) < 2 * CenterTolerance

\* C6: the XY bounding box of all emitted vertices is centred on (125,125)
C6_BoundingBoxCentered ==
  (pc = "done" /\ AllVertices # {}) =>
    /\ Centered({v.x : v \in AllVertices}, centerX)
    /\ Centered({v.y : v \in AllVertices}, centerY)

\* C7: the triangles of a colour index that colour's own vertex list, and a
\* corner gets a vertex there whatever other colours registered before
C7_VertexMapPerColor ==
  /\ \A k \in 1 .. Len(localTriangles) : \A s \in 1 .. 3 :
       TriV(localTriangles[k], s) < Len(localVertices)
  /\ \A k \in Extruded : \A j \in Corners :
       /\ CornerIndex(k, j) < Len(localVertices)
       /\ KeyOf(localVertices[CornerIndex(k, j) + 1]) = CornerKey(k, j)
  /\ \A i \in 1 .. Len(objectsData) :
       \A k \in 1 .. Len(objectsData[i].triangles) : \A s \in 1 .. 3 :
         TriV(objectsData[i].triangles[k], s) < Len(objectsData[i].vertices)

\* a later colour has extruded a box with a corner that an earlier colour's
\* mesh already holds
C7_Witness ==
  /\ pc = "extrude"
  /\ \E k \in Extruded : \E j \in Corners : \E i \in 1 .. Len(objectsData) :
       \E n \in 1 .. Len(objectsData[i].vertices) :
         KeyOf(objectsData[i].vertices[n]) = CornerKey(k, j)

Absent(c) == CellsOf(c) = {}

\* the finished document has no object and no build item for a colour
\* without cells, and an object for every other colour
AbsentSkippedWhenDone ==
  pc = "done" =>
       /\ \A c \in ColorIndices : Absent(c) =>
            /\ \A i \in 1 .. Len(xml.objects) : xml.objects[i].pindex # c
            /\ \A b \in 1 .. Len(xml.build) :
                 \E i \in 1 .. Len(xml.objects) :
                   /\ xml.objects[i].id = xml.build[b].objectid
                   /\ xml.objects[i].pindex # c
       /\ \A c \in ColorIndices : ~Absent(c) =>
            \E i \in 1 .. Len(xml.objects) : xml.objects[i].pindex = c

\* some step of generate3DModel can be taken (the guards of the actions)
CanStep ==
  \/ pc = "loopColor" /\ colorIndex < NumColors
  \/ pc = "loopColor" /\ colorIndex = NumColors
  \/ pc = "floodFill" /\ Unvisited(colorMap, colorIndex, visited) # {}
  \/ pc = "floodFill" /\ Unvisited(colorMap, colorIndex, visited) = {}
  \/ pc = "decompose" /\ BestRect(bitmap).area > 0
  \/ pc = "decompose" /\ BestRect(bitmap).area = 0
  \/ pc = "extrude" /\ regionIdx <= Len(regions)
  \/ pc = "extrude" /\ regionIdx > Len(regions)

\* C8: generation is never stuck before it is done, also while it handles a
\* colour without cells, and such a colour gets no object and no build item
\* while the other colours get theirs
C8_AbsentColorSkipped ==
  /\ pc # "done" => CanStep
  /\ (pc = "extrude" /\ Absent(colorIndex)) =>
       (regions = <<>> /\ localVertices = <<>> /\ localTriangles = <<>>)
  /\ AbsentSkippedWhenDone

\* a finished document for a grid that lacks one colour and has another
C8_Witness ==
  /\ pc = "done"
  /\ \E c \in ColorIndices : Absent(c)
  /\ Len(xml.objects) >= 1

\* C9: as many objects as colours with cells, and the build items are in
\* one-to-one correspondence with the objects
C9_ObjectAndItemCounts ==
  pc = "done" =>
    /\ Len(xml.objects) = Cardinality({c \in ColorIndices : ~Absent(c)})
    /\ Len(xml.build) = Len(xml.objects)
    /\ \A a, b \in 1 .. Len(xml.build) :
         a # b => xml.build[a].objectid # xml.build[b].objectid
    /\ \A b \in 1 .. Len(xml.build) :
         \E i \in 1 .. Len(xml.objects) :
           xml.objects[i].id = xml.build[b].objectid

\* a document with two objects
C9_Witness ==
  /\ pc = "done"
  /\ Len(xml.objects) >= 2

ObjectsOf(doc) == IF "objects" \in DOMAIN doc THEN doc.objects ELSE <<>>

\* the attribute names of the triangle elements of a document
TriangleAttributes(doc) ==
  UNION {UNION {DOMAIN ObjectsOf(doc)[i].triangles[k] :
                  k \in 1 .. Len(ObjectsOf(doc)[i].triangles)} :
           i \in 1 .. Len(ObjectsOf(doc))}

\* C11: every serialised triangle element carries the attributes v1, v2 and
\* v3 and no other, in the document of generate3DModel and in the document
\* of export3MF
C11_TrianglesCarryOnlyVertexRefs ==
  /\ TriangleAttributes(xml) \subseteq {"v1", "v2", "v3"}
  /\ TriangleAttributes(modelXml) \subseteq {"v1", "v2", "v3"}

\* the vertex indices used by the k-th group of 12 triangles of an object
BoxVertexIndices(o, k) ==
  {TriV(o.triangles[Len(BoxFaces) * (k - 1) + f], c) :
     f \in 1 .. Len(BoxFaces), c \in 1 .. 3}

\* the grid cells inside the XY extent of the k-th box of a serialised object
BoxCellsOf(o, k) ==
  LET xs == {o.vertices[n + 1].x.n : n \in BoxVertexIndices(o, k)}
      ys == {o.vertices[n + 1].y.n : n \in BoxVertexIndices(o, k)}
  IN  {p \in Cells :
         /\ XmlVertex([x |-> PosX(p[1], width), y |-> 0, z |-> 0]).x.n >= MinOf(xs)
         /\ XmlVertex([x |-> PosX(p[1] + 1, width), y |-> 0, z |-> 0]).x.n <= MaxOf(xs)
         /\ XmlVertex([x |-> 0, y |-> PosY(p[2], width), z |-> 0]).y.n >= MinOf(ys)
         /\ XmlVertex([x |-> 0, y |-> PosY(p[2] + 1, width), z |-> 0]).y.n <= MaxOf(ys)}

\* the grid cells the geometry of a serialised object stands on
CoveredCells(o) ==
  UNION {BoxCellsOf(o, k) : k \in 1 .. (Len(o.triangles) \div Len(BoxFaces))}

Filled == {p \in MaskCells : mask[p] = 1}

\* the empty pixels, with one ring of pixels around the mask, are connected
HoleFree ==
  Connected(((-1 .. MaskW) \X (-1 .. MaskH)) \ Filled)

\* the volume of a mesh is within pct percent of the expected volume
VolumeWithin(vertices, indices, pct, expected) ==
  LET v == calculateMeshVolume(vertices, indices)
  IN  Abs(v.num - v.den * expected) <= (pct * v.den * expected) \div 100

\* C13: for a mask that is one 4-connected region without holes, the volume
\* of the contour mesh is within 5% of pixels x voxelSize^2 x thickness
C13_ContourVolumeMatchesPixels ==
  (pc = "meshReturned" /\ Connected(Filled) /\ HoleFree) =>
    VolumeWithin(allVertices, allIndices, 5,
                 Cardinality(Filled) * voxelSize * voxelSize * thickness)

\* a set of cells that is a full W x H rectangle
IsSolidRectangle(S) ==
  /\ S # {}
  /\ S = (MinOf({p[1] : p \in S}) .. MaxOf({p[1] : p \in S}))
           \X (MinOf({p[2] : p \in S}) .. MaxOf({p[2] : p \in S}))

RectW(S) == MaxOf({p[1] : p \in S}) - MinOf({p[1] : p \in S}) + 1

RectH(S) == MaxOf({p[2] : p \in S}) - MinOf({p[2] : p \in S}) + 1

\* volumes of box-merge meshes are measured in units of 0.02 mm, from an
\* origin 1 mm below the lowest corner of the mesh in x, y and z (so that
\* every face contributes to the sum)
VolumeUnit == UnitsPerMm \div 50

\* the mesh of a box-merge object as flat vertex and index arrays
ObjectMeshArrays(obj) ==
  LET vs == obj.vertices
      minX == MinOf({vs[k].x : k \in 1 .. Len(vs)})
      minY == MinOf({vs[k].y : k \in 1 .. Len(vs)})
      minZ == MinOf({vs[k].z : k \in 1 .. Len(vs)})
      Coord(v, c) == UnitsPerMm + (IF c = 0 THEN v.x - minX
                                   ELSE IF c = 1 THEN v.y - minY
                                   ELSE v.z - minZ)
  IN  [vertices |-> [i \in 1 .. 3 * Len(vs) |->
                       RoundDiv(Coord(vs[((i - 1) \div 3) + 1], (i - 1) % 3),
                                VolumeUnit)],
       indices |-> [i \in 1 .. 3 * Len(obj.triangles) |->
                      TriV(obj.triangles[((i - 1) \div 3) + 1],
                           ((i - 1) % 3) + 1)]]

\* W*s x H*s x T for the rectangle S of colour c, s being width / imgWidth
BoxMergeExpectedVolume(S, c) ==
  LET s == RoundDiv(width \div imgWidth, VolumeUnit)
  IN  (RectW(S) * s) * (RectH(S) * s) * RoundDiv(colorHeights[c], VolumeUnit)

\* C14: the mesh of a solid W x H rectangle has the volume W*s x H*s x T
\* within 1%, from the contour backend and from box-merge
C14_SolidRectangleVolume ==
  /\ (pc = "meshReturned" /\ IsSolidRectangle(Filled)) =>
       VolumeWithin(allVertices, allIndices, 1,
                    (RectW(Filled) * voxelSize) * (RectH(Filled) * voxelSize)
                      * thickness)
  /\ \A i \in 1 .. Len(objectsData) :
       LET c == objectsData[i].colorIndex
           a == ObjectMeshArrays(objectsData[i])
       IN  IsSolidRectangle(CellsOf(c)) =>
             VolumeWithin(a.vertices, a.indices, 1,
                          BoxMergeExpectedVolume(CellsOf(c), c))

\* box-merge has built the mesh of a colour whose cells are a rectangle of
\* two by two cells or more
C14_Witness ==
  \E i \in 1 .. Len(objectsData) :
    LET S == CellsOf(objectsData[i].colorIndex)
    IN  IsSolidRectangle(S) /\ RectW(S) >= 2 /\ RectH(S) >= 2

\* the vertex indices the k-th group of 12 triangles of the colour being
\* built refers to
GroupVertexIndices(k) ==
  {TriV(localTriangles[12 * (k - 1) + f], c) : f \in 1 .. 12, c \in 1 .. 3}

\* C15: a colour's triangle count is 12 times the number of its extruded
\* rectangles, and every rectangle refers to 8 corners of its own, whether or
\* not other rectangles share their vertices
C15_TwelveTrianglesEightCorners ==
  /\ pc = "extrude" =>
       /\ Len(localTriangles) = 12 * (regionIdx - 1)
       /\ \A k \in Extruded : Cardinality(GroupVertexIndices(k)) = 8
       /\ Len(localVertices) <= 8 * (regionIdx - 1)
  /\ (pc = "loopColor" /\ colorIndex > 0) =>
       /\ Len(localTriangles) = 12 * Len(regions)
       /\ \A i \in 1 .. Len(objectsData) :
            /\ Len(objectsData[i].triangles) % 12 = 0
            /\ objectsData[i].colorIndex = colorIndex - 1 =>
                 Len(objectsData[i].triangles) = 12 * Len(regions)

\* a colour of two rectangles or more that share vertices has been extruded
C15_Witness ==
  /\ pc = "extrude"
  /\ regionIdx > Len(regions)
  /\ Len(regions) >= 2
  /\ Len(localVertices) < 8 * Len(regions)

\* C16: with smoothing active every extruded rectangle adds exactly 44
\* triangles to its colour, and a colour of one rectangle has exactly the
\* 16 vertices of one chamfered prism
C16_ChamferedPrism ==
  (pc = "extrude" /\ shouldSmooth) =>
    /\ Len(localTriangles) = 44 * (regionIdx - 1)
    /\ Len(localVertices) <= 16 * (regionIdx - 1)
    /\ regionIdx = 2 => Len(localVertices) = 16

\* C17: with smoothing active every finished object is manifold, whether
\* its colour was extruded as one chamfered prism or as several: each
\* undirected edge of its triangles occurs in exactly 2 triangle incidences
C17_SmoothedMeshManifold ==
  shouldSmooth =>
    \A i \in 1 .. Len(objectsData) : Manifold(objectsData[i].triangles)

\* C18: a polygon of 5 points or more always comes back with n - 2
\* triangles; when no remaining vertex is an ear the function warns once,
\* and the triangles after those of the clipped ears are exactly the fan
\* (remaining[0], remaining[j], remaining[j+1]) over the remaining vertices
C18_FanFallback ==
  (pc = "triangulated" /\ Len(contours[1]) >= 5) =>
    LET points == contours[1]
        n == Len(points)
        remaining == remainingAtReturn
        m == Len(remaining)
        clipped == n - m
        prevOf(i) == remaining[((i - 2 + m) % m) + 1]
        nextOf(i) == remaining[(i % m) + 1]
    IN  /\ Len(allIndices) = 3 * (n - 2)
        /\ warnings <= 1
        /\ warnings = 0 => m = 3
        /\ warnings = 1 =>
             /\ m > 3
             /\ \A i \in 1 .. m :
                  ~isEar(points, remaining, prevOf(i), remaining[i], nextOf(i))
             /\ \A j \in 1 .. m - 2 :
                  SubSeq(allIndices, 3 * (clipped + j - 1) + 1,
                         3 * (clipped + j))
                    = <<remaining[1], remaining[j + 1], remaining[j + 2]>>

\* the fallback has run after at least one ear was clipped
C18_Witness ==
  /\ pc = "triangulated"
  /\ warnings = 1
  /\ Len(remainingAtReturn) > 3
  /\ Len(remainingAtReturn) < Len(contours[1])

\* C19: a mesh with an undirected edge that is not in exactly 2 triangle
\* incidences is never handed out as a valid result: neither as an object
\* of the document generate3DModel returns nor as the mesh that
\* generateMeshFromContours returns
C19_OpenMeshNeverEmitted ==
  /\ pc = "done" =>
       \A i \in 1 .. Len(ObjectsOf(xml)) :
         Manifold(ObjectsOf(xml)[i].triangles)
  /\ pc = "meshReturned" =>
       Manifold([k \in 1 .. Len(allIndices) \div 3 |->
                   [v1 |-> allIndices[3 * k - 2], v2 |-> allIndices[3 * k - 1],
                    v3 |-> allIndices[3 * k]]])

\* C20: every triangle of every object of the returned document refers to
\* three pairwise distinct vertices of that object, whatever the layer
\* heights are, 0 included
C20_NoDegenerateTriangle ==
  pc = "done" =>
    \A i \in 1 .. Len(ObjectsOf(xml)) :
      LET obj == ObjectsOf(xml)[i]
      IN  \A k \in 1 .. Len(obj.triangles) :
            LET t == obj.triangles[k]
            IN  /\ Cardinality({t.v1, t.v2, t.v3}) = 3
                /\ \A v \in {t.v1, t.v2, t.v3} :
                     v >= 0 /\ v < Len(obj.vertices)

\* C21: no step of export3MF changes its argument: the colour, height,
\* vertex array and index array of every layer stay what they were
C21_ExportKeepsMeshes == [][colorLayers' = colorLayers]_vars

\* the document is complete and holds the object of a layer with a mesh
C21_Witness ==
  /\ pc = "exported"
  /\ Len(modelXml.objects) >= 1
  /\ \E i \in 1 .. Len(colorLayers) : colorLayers[i].mesh # NoMesh

\* C22 as stated: for an existing image, a finished run that found no
\* config file has written it and produced no 3MF, a finished run that
\* found one has generated the 3MF and left the config as it was, and the
\* first run from a fresh directory leaves no 3MF
C22_ConfigThenModel ==
  (pc = "exited" /\ imageExists) =>
    /\ IF filesAtStart.config = Undefined
       THEN /\ configFile # Undefined
            /\ outputFile = Undefined
            /\ scadCalls = 0
       ELSE /\ configFile = filesAtStart.config
            /\ outputFile = [objects |-> coloredObjects]
            /\ exitCode = 0
    /\ runs = 1 => outputFile = Undefined

\* C22 amended: as above, except that a run that found a config file
\* generates the 3MF only if processing is not rejected; a rejected run
\* exits with status 1 and an error message and leaves both files alone.
\* No run that found a config file rewrites it at any point
C22_ConfigThenModelUnlessRejected ==
  /\ filesAtStart.config # Undefined => configFile = filesAtStart.config
  /\ (pc = "exited" /\ imageExists) =>
       /\ IF filesAtStart.config = Undefined
          THEN /\ configFile = generateDefaultConfig(ModalColors)
               /\ outputFile = Undefined
               /\ scadCalls = 0
               /\ exitCode = 0
          ELSE \/ /\ exitCode = 0
                  /\ outputFile = [objects |-> coloredObjects]
                  /\ Len(coloredObjects) >= 1
               \/ /\ exitCode = 1
                  /\ errorMessage # ""
                  /\ outputFile = filesAtStart.output
       /\ runs = 1 => outputFile = Undefined

\* the second run from a fresh directory has generated the first 3MF
C22_Witness ==
  /\ pc = "exited"
  /\ imageExists
  /\ runs = 2
  /\ exitCode = 0
  /\ filesAtStart.config # Undefined
  /\ filesAtStart.output = Undefined
  /\ outputFile # Undefined

BothModes(cfg) ==
  cfg # Undefined /\ cfg.backing # Undefined /\ cfg.sandwich # Undefined

LastClaimed == componentRegions[Len(componentRegions)]

UncoveredBefore == bitmap \cup RectCells(LastClaimed)

RectArea(r) == (r.x2 - r.x1) * (r.y2 - r.y1)

\* C24: the rectangle claimed in an iteration is the anchored rectangle of
\* its own top-left cell; no uncovered cell anchors a rectangle of larger
\* area, and every cell that anchors one of equal area comes later in
\* row-major order
C24_LargestFirstInScanOrder ==
  (pc = "decompose" /\ Len(componentRegions) > 0) =>
    LET r == LastClaimed
        anchor == <<r.x1, r.y1>>
    IN  /\ anchor \in UncoveredBefore
        /\ r = Region(findLargestRectangleFrom(UncoveredBefore, r.x1, r.y1))
        /\ \A c \in UncoveredBefore :
             LET cand == findLargestRectangleFrom(UncoveredBefore, c[1], c[2])
             IN  /\ cand.area <= RectArea(r)
                 /\ (cand.area = RectArea(r) /\ c # anchor) =>
                      ScanPos(anchor) < ScanPos(c)

\* a rectangle has been claimed although a later cell anchored one of the
\* same area
C24_Witness ==
  /\ pc = "decompose"
  /\ Len(componentRegions) > 0
  /\ \E c \in UncoveredBefore :
       /\ c # <<LastClaimed.x1, LastClaimed.y1>>
       /\ findLargestRectangleFrom(UncoveredBefore, c[1], c[2]).area
            = RectArea(LastClaimed)

\* the cells of the w x h rectangle with top-left cell c
RectFrom(c, w, h) ==
  {<<x, y>> : x \in c[1] .. c[1] + w - 1, y \in c[2] .. c[2] + h - 1}

\* C25: during decomposition, for every uncovered cell c the anchored
\* search returns a rectangle with top-left cell c that lies within the
\* uncovered cells, whose area field is its area, and no rectangle of
\* uncovered cells with top-left cell c has a larger area
C25_AnchoredRectangleMaximal ==
  pc = "decompose" =>
    \A c \in bitmap :
      LET r == findLargestRectangleFrom(bitmap, c[1], c[2])
      IN  /\ <<r.x1, r.y1>> = c
          /\ r.x2 > r.x1 /\ r.y2 > r.y1
          /\ RectCells(r) \subseteq bitmap
          /\ r.area = RectArea(r)
          /\ \A w \in 1 .. imgWidth : \A h \in 1 .. imgHeight :
               RectFrom(c, w, h) \subseteq bitmap => w * h <= r.area

\* the search has narrowed the width to go down: the cell's row is wider
\* than the rectangle returned for it, which spans two rows or more
C25_Witness ==
  /\ pc = "decompose"
  /\ \E c \in bitmap :
       LET r == findLargestRectangleFrom(bitmap, c[1], c[2])
       IN  /\ r.y2 - r.y1 >= 2
           /\ RowWidth(bitmap, c[1], c[2], imgWidth) > r.x2 - r.x1

\* the right-hand normal of the f-th triangle of the k-th extruded box
\* points away from the box: corners are taken as 0 (lower) or 1 (upper)
\* along each axis of their box, which keeps every sign of the normal
OutwardNormal(k, f) ==
  LET t == localTriangles[12 * (k - 1) + f]
      box == {localVertices[i + 1] : i \in GroupVertexIndices(k)}
      unit(v) == <<IF \A b \in box : v.x <= b.x THEN 0 ELSE 1,
                   IF \A b \in box : v.y <= b.y THEN 0 ELSE 1,
                   IF \A b \in box : v.z <= b.z THEN 0 ELSE 1>>
      a == unit(localVertices[t.v1 + 1])
      b == unit(localVertices[t.v2 + 1])
      c == unit(localVertices[t.v3 + 1])
      u == [i \in 1 .. 3 |-> b[i] - a[i]]
      w == [i \in 1 .. 3 |-> c[i] - a[i]]
      n == <<u[2] * w[3] - u[3] * w[2], u[3] * w[1] - u[1] * w[3],
             u[1] * w[2] - u[2] * w[1]>>
      out == [i \in 1 .. 3 |-> 2 * (a[i] + b[i] + c[i]) - 3]
  IN  n[1] * out[1] + n[2] * out[2] + n[3] * out[3] > 0

\* C26: each of the 12 triangles of every extruded box has its right-hand
\* normal pointing out of the box, for showOnFront true and false alike
C26_NormalsPointOutward ==
  (pc = "extrude" /\ ~shouldSmooth) =>
    \A k \in Extruded : \A f \in 1 .. 12 : OutwardNormal(k, f)

\* the mesh is what OpenSCAD returned for some footprint at the given
\* height, every vertex moved up by raise and nothing else changed
RaisedToolMesh(mesh, height, raise) ==
  \E s \in Footprints :
    LET tool == OpenSCADMesh(height, s)
    IN  /\ mesh.triangles = tool.triangles
        /\ Len(mesh.vertices) = Len(tool.vertices)
        /\ \A k \in 1 .. Len(tool.vertices) :
             /\ mesh.vertices[k].x = tool.vertices[k].x
             /\ mesh.vertices[k].y = tool.vertices[k].y
             /\ mesh.vertices[k].z = tool.vertices[k].z + raise

\* C27: in backing mode the backing layer's mesh is as OpenSCAD returned
\* it and every colour layer's mesh is raised in z by the backing
\* thickness; in default mode and in sandwich mode no mesh is raised
C27_OnlyBackingRaisesColours ==
  (loadedConfig # Undefined /\ ~BothModes(loadedConfig)) =>
    LET cfg == loadedConfig
        plane == IF cfg.backing # Undefined THEN cfg.backing ELSE cfg.sandwich
        first == IF plane # Undefined THEN 1 ELSE 0
    IN  \A i \in 1 .. Len(coloredObjects) :
          IF i <= first
          THEN RaisedToolMesh(coloredObjects[i].mesh, plane.thickness, 0)
          ELSE RaisedToolMesh(coloredObjects[i].mesh,
                 colorHeight(cfg, cfg.colors.entries[i - first]),
                 IF cfg.backing # Undefined THEN cfg.backing.thickness ELSE 0)

\* a backing run has written its 3MF with the colours raised off z = 0
C27_Witness ==
  /\ pc = "exited"
  /\ exitCode = 0
  /\ loadedConfig # Undefined
  /\ loadedConfig.backing # Undefined
  /\ loadedConfig.backing.thickness > 0
  /\ Len(coloredObjects) >= 2
  /\ coloredObjects[1].mesh.vertices[1].z = 0
  /\ coloredObjects[2].mesh.vertices[1].z = loadedConfig.backing.thickness
  /\ outputFile = [objects |-> coloredObjects]

\* number of points of the contours before the k-th
RECURSIVE PointsBefore(_)
PointsBefore(k) ==
  IF k <= 1 THEN 0 ELSE Len(contours[k - 1]) + PointsBefore(k - 1)

\* index of the first vertex of the k-th extruded contour
ContourBase(k) == 2 * PointsBefore(k)

\* number of triangles of the contours before the k-th, each contour of n
\* points counting 2 (n - 2) cap triangles and 2 n side triangles
ContourFirstTriangle(k) == 4 * PointsBefore(k) - 4 * (k - 1)

\* the j-th triangle (from 1) of the k-th extruded contour, read back from
\* the index array
ContourTriangle(k, j) ==
  LET at == 3 * (ContourFirstTriangle(k) + j - 1)
  IN  [v1 |-> allIndices[at + 1], v2 |-> allIndices[at + 2],
       v3 |-> allIndices[at + 3]]

\* C28: every extruded contour of n >= 3 points has added 2 n vertices,
\* n at z = 0 followed by n at z = thickness, and 2 (n - 2) + 2 n
\* triangles over them: a front cap, the same cap on the back ring with
\* the opposite winding, and two triangles per polygon edge; every
\* undirected edge of these triangles is in exactly 2 triangle incidences
C28_ExtrudedContourClosed ==
  pc \in {"extrudeContours", "meshReturned"} =>
    /\ Len(allVertices) = 3 * ContourBase(contourIdx + 1)
    /\ Len(allIndices) = 3 * ContourFirstTriangle(contourIdx + 1)
    /\ \A k \in 1 .. contourIdx :
         LET n == Len(contours[k])
             base == ContourBase(k)
             caps == n - 2
             z(v) == allVertices[3 * v + 3]
             triangles == [j \in 1 .. 2 * caps + 2 * n |-> ContourTriangle(k, j)]
         IN  /\ n >= 3
             /\ \A v \in base .. base + n - 1 : z(v) = 0
             /\ \A v \in base + n .. base + 2 * n - 1 : z(v) = thickness
             /\ \A j \in 1 .. Len(triangles) : \A c \in 1 .. 3 :
                  TriV(triangles[j], c) \in base .. base + 2 * n - 1
             /\ \A j \in 1 .. caps :
                  /\ TriV(triangles[j], 1) < base + n
                  /\ triangles[caps + j].v1 = triangles[j].v1 + n
                  /\ triangles[caps + j].v2 = triangles[j].v3 + n
                  /\ triangles[caps + j].v3 = triangles[j].v2 + n
             /\ \A i \in 0 .. n - 1 :
                  /\ {base + i, base + ((i + 1) % n)}
                       \in {EdgeOf(triangles[2 * caps + 2 * i + 1], c) :
                              c \in 1 .. 3}
                  /\ {base + n + i, base + n + ((i + 1) % n)}
                       \in {EdgeOf(triangles[2 * caps + 2 * i + 2], c) :
                              c \in 1 .. 3}
             /\ Manifold(triangles)

\* a 4-point rectangle and a contour of more than 4 points have both been
\* extruded: the rectangle has 8 vertices and 12 triangles
C28_Witness ==
  /\ pc = "meshReturned"
  /\ contourIdx = 2
  /\ \E k \in 1 .. 2 :
       /\ Len(contours[k]) = 4
       /\ ContourBase(k + 1) - ContourBase(k) = 8
       /\ ContourFirstTriangle(k + 1) - ContourFirstTriangle(k) = 12
  /\ \E k \in 1 .. 2 : Len(contours[k]) > 4
  /\ Len(allVertices) = 3 * ContourBase(3)
  /\ Len(allIndices) = 3 * ContourFirstTriangle(3)

\* the triangles of the flat index array
IndexTriangles ==
  [k \in 1 .. Len(allIndices) \div 3 |->
     [v1 |-> allIndices[3 * k - 2], v2 |-> allIndices[3 * k - 1],
      v3 |-> allIndices[3 * k]]]

\* the position of the vertex an index entry points at
IndexedPosition(i) ==
  <<allVertices[3 * allIndices[i] + 1], allVertices[3 * allIndices[i] + 2],
    allVertices[3 * allIndices[i] + 3]>>

\* C29: in the mesh marchingCubes returns, index entries that point at the
\* same crossing point hold the same vertex index, and every undirected
\* edge of the index triangles is in exactly 2 triangle incidences
C29_IsosurfaceClosed ==
  pc = "cubesReturned" =>
    /\ \A i, j \in 1 .. Len(allIndices) :
         IndexedPosition(i) = IndexedPosition(j) => allIndices[i] = allIndices[j]
    /\ Manifold(IndexTriangles)

\* the call has returned n - 2 triangles for its polygon of n points, each
\* of three different indices from 0 to n - 1
ReturnedTriangulation ==
  /\ pc = "triangulated"
  /\ LET n == Len(contours[1])
     IN  n >= 3 =>
           /\ Len(allIndices) = 3 * (n - 2)
           /\ \A k \in 1 .. n - 2 :
                LET t == {allIndices[3 * k - 2], allIndices[3 * k - 1],
                          allIndices[3 * k]}
                IN  Cardinality(t) = 3 /\ t \subseteq 0 .. n - 1

\* C30: for every polygon of n >= 3 points the call of triangulatePolygon
\* returns, and what it returns is exactly n - 2 triangles, each of three
\* distinct indices in [0, n), whether or not the fan fallback was taken
C30_TriangulationReturns == <>ReturnedTriangulation

\* a polygon of 5 points triangulated with an ear clipped first and the
\* fan taken for the rest: 3 triangles
C30_Witness ==
  /\ pc = "triangulated"
  /\ Len(contours[1]) = 5
  /\ warnings = 1
  /\ Len(remainingAtReturn) = 4
  /\ Len(allIndices) = 9
  /\ allIndices = triangulatePolygon(contours[1]).indices

====
